---- MODULE Spec2Model ----
(***************************************************************************)
(* Model of the automation scheduler (core/automations/executor.ts with    *)
(* its skip checkers) and of the tool registry (core/tools/registry.ts).   *)
(*                                                                         *)
(* It also models the agent execution controller (processAgentController  *)
(* with its status handlers) under the agent-loop handler.                 *)
(*                                                                         *)
(* The specifications that share the module:                               *)
(*   Spec          the scheduler: ticks of the executor handler over a     *)
(*                 small collection of automations, with external          *)
(*                 re-enabling and injected infrastructure failures;       *)
(*   PipelineSpec  the skip-check pipeline as a pure function of           *)
(*                 (automation, now, agentsCreatedByModelType);            *)
(*   RegistrySpec  the ToolRegistry object under register, unregister,     *)
(*                 execute and clear;                                      *)
(*   RateSpec      the scheduler without failures, on recurring jobs whose *)
(*                 model varies;                                           *)
(*   ControllerSpec the agent-loop handler stepping one agent document;    *)
(*   ResumeSpec    ControllerSpec with an external actor that sets a       *)
(*                 paused or failed agent back to 'running';               *)
(*   LoopSpec      one invocation of the agent-loop handler, await by      *)
(*                 await, while an external actor writes the document.     *)
(***************************************************************************)
EXTENDS Integers, Sequences, FiniteSets, TLC

VARIABLES
    jobs,       \* automations collection: automation id -> Automation document
    agents,     \* agents collection: sequence of committed agent documents
    clock,      \* wall clock in seconds (Date.now() of the latest tick)
    ticks,      \* number of handler invocations so far
    cfg,        \* AutomationExecutorConfig: defaultModel, track present or not
    lastTick,   \* what the latest handler invocation did
    pin,        \* PipelineSpec: the input (automation, now, counter)
    pout,       \* PipelineSpec: the SkipResult computed for pin
    tools,      \* ToolRegistry.tools: insertion-ordered Map, as a sequence
    lastCall,   \* RegistrySpec: the latest registry call and its outcome
    agent,      \* the persisted agent document: status, history, error
    options,    \* ControllerOptions: hotlTools, messagePauseThreshold
    notice,     \* the pending document-change notification, if any
    steps,      \* number of agent-loop handler invocations so far
    lastStep,   \* what the latest agent-loop handler invocation did
    loop        \* LoopSpec: the handler invocation in flight

vars == <<jobs, agents, clock, ticks, cfg, lastTick, pin, pout, tools, lastCall,
         agent, options, notice, steps, lastStep, loop>>

schedVars == <<jobs, agents, clock, ticks, cfg, lastTick>>
pipeVars == <<pin, pout>>
regVars == <<tools, lastCall>>
ctlVars == <<agent, options, notice, steps, lastStep, loop>>

----------------------------------------------------------------------------
(* Bounds of the model. *)

NJobs == 2
NRateJobs == 6
MaxTicks == 2
MaxCount == 2

----------------------------------------------------------------------------
(* JavaScript values. *)

\* an optional number field that is absent (undefined)
Unset == -1
\* an optional string field that is absent (undefined)
NoModel == "undefined"

\* JavaScript truthiness of an optional number: undefined and 0 are falsy
Truthy(x) == x # Unset /\ x # 0

\* x || 0
OrZero(x) == IF Truthy(x) THEN x ELSE 0

\* m || d for an optional model string
OrModel(m, d) == IF m # NoModel THEN m ELSE d

\* Times are counted in seconds. The code counts milliseconds, and every
\* duration it uses is a whole number of 1000 ms; Date.now() in milliseconds
\* is beyond TLC's 32-bit integers, in seconds it is not. Second stands
\* where the code writes the factor 1000.
Second == 1

Minute == 60 * Second
oneDay == 24 * 60 * 60 * Second

----------------------------------------------------------------------------
(* Skip checkers. A SkipResult is [shouldSkip, reasonType]; the reason     *)
(* string is non-empty exactly when shouldSkip is true.                    *)

NoSkip == [shouldSkip |-> FALSE, reasonType |-> "none"]
Skip(kind) == [shouldSkip |-> TRUE, reasonType |-> kind]

checkNotReady(automation, now) ==
    IF now < automation.startDate THEN Skip("not_ready") ELSE NoSkip

getTimeThreshold(frequency, now) ==
    CASE frequency = "every_5_minutes" -> now - 5 * 60 * Second
      [] frequency = "every_10_minutes" -> now - 10 * 60 * Second
      [] frequency = "every_15_minutes" -> now - 15 * 60 * Second
      [] frequency = "every_30_minutes" -> now - 30 * 60 * Second
      [] frequency = "every_1_hour" -> now - 60 * 60 * Second
      [] frequency = "every_3_hours" -> now - 3 * 60 * 60 * Second
      [] frequency = "every_6_hours" -> now - 6 * 60 * 60 * Second
      [] frequency = "every_12_hours" -> now - 12 * 60 * 60 * Second
      [] frequency = "daily" -> now - oneDay
      [] frequency = "every_2_days" -> now - 2 * oneDay
      [] frequency = "every_4_days" -> now - 4 * oneDay
      [] frequency = "weekly" -> now - 7 * oneDay
      [] frequency = "every_2_weeks" -> now - 14 * oneDay
      [] frequency = "monthly" -> now - 30 * oneDay
      [] OTHER -> now - oneDay

\* the check with > in place of >=
checkRunRecentlyStrict(automation, now) ==
    LET timeThreshold == getTimeThreshold(automation.frequency, now)
        lastRun == OrZero(automation.lastRun)
        leeway == 1 * 60 * Second
    IN  IF automation.frequency # "once" /\ lastRun - leeway > timeThreshold
        THEN Skip("run_recently")
        ELSE NoSkip

\* the check without the minute of leeway
checkRunRecentlyNoLeeway(automation, now) ==
    LET timeThreshold == getTimeThreshold(automation.frequency, now)
        lastRun == OrZero(automation.lastRun)
    IN  IF automation.frequency # "once" /\ lastRun >= timeThreshold
        THEN Skip("run_recently")
        ELSE NoSkip

checkRunRecently(automation, now) ==
    LET timeThreshold == getTimeThreshold(automation.frequency, now)
        lastRun == OrZero(automation.lastRun)
        leeway == 1 * 60 * Second
    IN  IF automation.frequency # "once" /\ lastRun - leeway >= timeThreshold
        THEN Skip("run_recently")
        ELSE NoSkip

\* (executions || 0) >= (maxExecutions || Infinity)
hasReachedMaxExecutions(automation) ==
    IF Truthy(automation.maxExecutions)
    THEN OrZero(automation.executions) >= automation.maxExecutions
    ELSE FALSE

checkMaxExecutions(automation) ==
    IF hasReachedMaxExecutions(automation) THEN Skip("max_executions") ELSE NoSkip

\* a slip in the frequency test: frequency !== 'once'
checkAlreadyRunRecurring(automation) ==
    IF automation.frequency # "once" /\ Truthy(automation.lastRun)
    THEN Skip("already_run")
    ELSE NoSkip

checkAlreadyRun(automation) ==
    IF automation.frequency = "once" /\ Truthy(automation.lastRun)
    THEN Skip("already_run")
    ELSE NoSkip

MAX_AGENTS_SMALL_MODEL == 2
MAX_AGENTS_LARGE_MODEL == 5
SMALL_MODELS == {"gpt-5-mini"}

getMaxAgentsForModel(model) ==
    IF model # NoModel /\ model \in SMALL_MODELS
    THEN MAX_AGENTS_SMALL_MODEL
    ELSE MAX_AGENTS_LARGE_MODEL

getModelType(model) ==
    IF model # NoModel /\ model \in SMALL_MODELS THEN "small" ELSE "large"

\* the model the rate check classifies a job by
rateLimitedModel(automation) == OrModel(automation.model, "gpt-5.2")

checkRateLimited(automation, agentsCreatedByModelType) ==
    LET model == rateLimitedModel(automation)
        modelType == getModelType(model)
        maxAgents == getMaxAgentsForModel(model)
        agentCount == agentsCreatedByModelType[modelType]
    IN  IF agentCount >= maxAgents THEN Skip("rate_limited") ELSE NoSkip

\* the pipeline with the rate check moved to the front
checkShouldSkipAutomationRateFirst(automation, now, agentsCreatedByModelType) ==
    IF checkRateLimited(automation, agentsCreatedByModelType).shouldSkip
        THEN checkRateLimited(automation, agentsCreatedByModelType)
    ELSE IF checkNotReady(automation, now).shouldSkip
        THEN checkNotReady(automation, now)
    ELSE IF checkRunRecently(automation, now).shouldSkip
        THEN checkRunRecently(automation, now)
    ELSE IF checkMaxExecutions(automation).shouldSkip
        THEN checkMaxExecutions(automation)
    ELSE IF checkAlreadyRun(automation).shouldSkip
        THEN checkAlreadyRun(automation)
    ELSE NoSkip

checkShouldSkipAutomation(automation, now, agentsCreatedByModelType) ==
    IF checkNotReady(automation, now).shouldSkip
        THEN checkNotReady(automation, now)
    ELSE IF checkRunRecently(automation, now).shouldSkip
        THEN checkRunRecently(automation, now)
    ELSE IF checkMaxExecutions(automation).shouldSkip
        THEN checkMaxExecutions(automation)
    ELSE IF checkAlreadyRun(automation).shouldSkip
        THEN checkAlreadyRun(automation)
    ELSE IF checkRateLimited(automation, agentsCreatedByModelType).shouldSkip
        THEN checkRateLimited(automation, agentsCreatedByModelType)
    ELSE NoSkip

----------------------------------------------------------------------------
(* The executor handler (createAutomationExecutorHandler).                 *)

ModelTypes == {"small", "large"}

\* const agentsCreatedByModelType = {}, read with "|| 0"
EmptyCounter == [t \in ModelTypes |-> 0]

\* .where('enabled', '==', true).get(): the enabled documents, in id order
RECURSIVE enabledDocs(_, _)
enabledDocs(js, i) ==
    IF i > Len(js) THEN <<>>
    ELSE (IF js[i].enabled = TRUE THEN <<i>> ELSE <<>>) \o enabledDocs(js, i + 1)

\* every agent on the configured default, whatever the job asks for
agentModelAlwaysDefault(automation, defaultModel) == defaultModel

\* the model the new agent gets
agentModel(automation, defaultModel) == OrModel(automation.model, defaultModel)

agentData(automation, automationId, now, conf) ==
    [ projectId |-> automation.projectId,
      model |-> agentModel(automation, conf.defaultModel),
      history |-> << [ type |-> "message", role |-> "user",
                       content |-> << "<prompt>", automation.prompt,
                                      "</prompt><automation_id>", automationId,
                                      "</automation_id>" >> ] >>,
      status |-> "running",
      name |-> <<conf.agentNamePrefix, automation.name>>,
      createdAt |-> now,
      updatedAt |-> now,
      automationId |-> automationId,
      type |-> "automation" ]

\* frequency !== 'once' && (executions || 0) < (maxExecutions || Infinity)
shouldKeepAutomationEnabled(automation) ==
    /\ automation.frequency # "once"
    /\ IF Truthy(automation.maxExecutions)
       THEN OrZero(automation.executions) < automation.maxExecutions
       ELSE TRUE

\* a slip in the update: lastRun is not written
automationUpdateNoLastRun(automation, now) ==
    [ executions |-> OrZero(automation.executions) + 1,
      enabled |-> shouldKeepAutomationEnabled(automation),
      lastRun |-> automation.lastRun,
      updatedAt |-> now ]

automationUpdate(automation, now) ==
    [ executions |-> OrZero(automation.executions) + 1,
      enabled |-> shouldKeepAutomationEnabled(automation),
      lastRun |-> now,
      updatedAt |-> now ]

\* a skip event that does not say why
skipEventNoReason(skipResult, automation, automationId, counter) ==
    [ event |-> "automation_skipped", automation_id |-> automationId,
      skip_reason |-> "none" ]

\* handleAutomationSkip: the tracking payload of a skip
skipEvent(skipResult, automation, automationId, counter) ==
    IF skipResult.reasonType = "rate_limited"
    THEN [ event |-> "automation_skipped", automation_id |-> automationId,
           skip_reason |-> skipResult.reasonType,
           model_type |-> getModelType(rateLimitedModel(automation)),
           agents_created_this_minute |->
               counter[getModelType(rateLimitedModel(automation))],
           max_agents_for_model |-> getMaxAgentsForModel(rateLimitedModel(automation)) ]
    ELSE [ event |-> "automation_skipped", automation_id |-> automationId,
           skip_reason |-> skipResult.reasonType ]

executedEvent(automationId) ==
    [ event |-> "automation_executed", automation_id |-> automationId ]

cronErrorEvent(message) ==
    [ event |-> "automation_cron_error", error |-> message ]

\* track?.(...): recorded only when the config carries a track callback
Tracked(conf, ev) == IF conf.track THEN <<ev>> ELSE <<>>

\* a counter that outlives the invocation: it starts where the last one ended
LoopStartKeepsCounter ==
    [ batch |-> <<>>, agentsCreated |-> 0, counter |-> lastTick.counter,
      tracked |-> <<>>, logs |-> <<>>, skipped |-> <<>>, eligible |-> <<>>,
      thrown |-> FALSE, error |-> "", trace |-> <<>> ]

LoopStart ==
    [ batch |-> <<>>, agentsCreated |-> 0, counter |-> EmptyCounter,
      tracked |-> <<>>, logs |-> <<>>, skipped |-> <<>>, eligible |-> <<>>,
      thrown |-> FALSE, error |-> "", trace |-> <<>> ]

\* an increment that lands on every class
incrementCounterEveryClass(counter, modelType) ==
    [ t \in ModelTypes |-> counter[t] + 1 ]

\* agentsCreatedByModelType[modelType] = (agentsCreatedByModelType[modelType] || 0) + 1
incrementCounter(counter, modelType) ==
    [ counter EXCEPT ![modelType] = @ + 1 ]

\* what one iteration did: the job, the decision, the counter before and after
Iteration(automationId, skipResult, before, after) ==
    [ id |-> automationId, decision |-> skipResult, before |-> before,
      after |-> after ]

\* one iteration of "for (const doc of automationsSnapshot.docs)"
loopBody(js, automationId, now, conf, fault, st) ==
    LET automation == js[automationId]
        skipResult == checkShouldSkipAutomation(automation, now, st.counter)
        modelType == getModelType(agentModel(automation, conf.defaultModel))
    IN  IF skipResult.shouldSkip
        THEN [ st EXCEPT
                 !.trace = @ \o << Iteration(automationId, skipResult, st.counter,
                                             st.counter) >>,
                 !.logs = @ \o << [ kind |-> "skip", id |-> automationId,
                                    reasonType |-> skipResult.reasonType ] >>,
                 !.tracked = @ \o Tracked(conf,
                     skipEvent(skipResult, automation, automationId, st.counter)),
                 !.skipped = @ \o << [ id |-> automationId,
                                       reasonType |-> skipResult.reasonType ] >> ]
        ELSE IF fault.kind = "buildContext" /\ fault.id = automationId
        THEN [ st EXCEPT !.eligible = @ \o <<automationId>>,
                         !.trace = @ \o << Iteration(automationId, skipResult,
                                                     st.counter, st.counter) >>,
                         !.thrown = TRUE, !.error = "buildContext failed" ]
        ELSE [ st EXCEPT
                 !.eligible = @ \o <<automationId>>,
                 !.batch = @ \o
                    << [ op |-> "set", id |-> automationId,
                         data |-> agentData(automation, automationId, now, conf) ],
                       [ op |-> "update", id |-> automationId,
                         data |-> automationUpdate(automation, now) ] >>,
                 !.agentsCreated = @ + 1,
                 !.counter = incrementCounter(@, modelType),
                 !.trace = @ \o << Iteration(automationId, skipResult, st.counter,
                                             incrementCounter(st.counter,
                                                              modelType)) >>,
                 !.tracked = @ \o Tracked(conf, executedEvent(automationId)) ]

RECURSIVE runLoop(_, _, _, _, _, _, _)
runLoop(js, docs, i, now, conf, fault, st) ==
    IF i > Len(docs) \/ st.thrown THEN st
    ELSE runLoop(js, docs, i + 1, now, conf, fault,
                 loopBody(js, docs[i], now, conf, fault, st))

\* a slip in the threshold: agentsCreated > 1
hasAgentsToCommitOffByOne(st) == st.agentsCreated > 1

\* const hasAgentsToCommit = agentsCreated > 0
hasAgentsToCommit(st) == st.agentsCreated > 0

\* a catch block that does not rethrow
catchBlockSwallows(conf, rep) ==
    [ rep EXCEPT !.outcome = "ok", !.error = rep.raised,
                 !.errorLogs = @ + 1,
                 !.tracked = @ \o Tracked(conf, cronErrorEvent(rep.raised)) ]

\* the catch block, entered with the exception rep.raised: console.error,
\* track('automation_cron_error'), throw
catchBlock(conf, rep) ==
    [ rep EXCEPT !.outcome = "thrown", !.error = rep.raised,
                 !.errorLogs = @ + 1,
                 !.tracked = @ \o Tracked(conf, cronErrorEvent(rep.raised)) ]

NoReport ==
    [ outcome |-> "none", raised |-> "", error |-> "", loaded |-> <<>>, skipped |-> <<>>,
      eligible |-> <<>>, batch |-> <<>>, commitCalls |-> 0, committed |-> FALSE,
      tracked |-> <<>>, logs |-> <<>>, errorLogs |-> 0, counter |-> EmptyCounter,
      trace |-> <<>> ]

\* the handler after the loop: commit if agents were created, or the catch
\* block if the loop threw
afterLoop(conf, fault, docs, st) ==
    LET rep == [ NoReport EXCEPT !.outcome = "ok", !.loaded = docs,
                    !.skipped = st.skipped, !.eligible = st.eligible,
                    !.batch = st.batch, !.tracked = st.tracked,
                    !.logs = st.logs, !.counter = st.counter,
                    !.trace = st.trace ]
    IN  IF st.thrown THEN catchBlock(conf, [ rep EXCEPT !.raised = st.error ])
        ELSE IF hasAgentsToCommit(st)
        THEN IF fault.kind = "commit"
             THEN catchBlock(conf, [ rep EXCEPT !.commitCalls = 1,
                                                !.raised = "commit failed" ])
             ELSE [ rep EXCEPT !.commitCalls = 1, !.committed = TRUE ]
        ELSE rep

\* one invocation of the handler: what it reports, given the collection,
\* Date.now(), the config and the infrastructure fault of this invocation
handler(js, now, conf, fault) ==
    IF fault.kind = "load"
    THEN catchBlock(conf, [ NoReport EXCEPT !.raised = "load failed" ])
    ELSE LET docs == enabledDocs(js, 1)
         IN  IF docs = <<>>
             THEN [ NoReport EXCEPT !.outcome = "ok" ]
             ELSE afterLoop(conf, fault, docs,
                            runLoop(js, docs, 1, now, conf, fault, LoopStart))

\* batch.commit(): the atomic application of the staged mutations
RECURSIVE applyUpdates(_, _, _)
applyUpdates(js, batch, i) ==
    IF i > Len(batch) THEN js
    ELSE IF batch[i].op = "update"
    THEN applyUpdates(
            [ js EXCEPT ![batch[i].id] =
                [ @ EXCEPT !.executions = batch[i].data.executions,
                           !.enabled = batch[i].data.enabled,
                           !.lastRun = batch[i].data.lastRun,
                           !.updatedAt = batch[i].data.updatedAt ] ],
            batch, i + 1)
    ELSE applyUpdates(js, batch, i + 1)

RECURSIVE createdAgents(_, _)
createdAgents(batch, i) ==
    IF i > Len(batch) THEN <<>>
    ELSE (IF batch[i].op = "set" THEN <<batch[i].data>> ELSE <<>>)
         \o createdAgents(batch, i + 1)

----------------------------------------------------------------------------
(* Scheduler specification. *)

\* Date.now() at construction; later ticks are later
Epoch0 == 1700000000 * Second

\* the time between two invocations of the handler
TickSteps == {Minute, 5 * Minute}

Faults(js) ==
    { [kind |-> k, id |-> 0] : k \in {"none", "load", "commit"} }
    \cup { [kind |-> "buildContext", id |-> i] : i \in 1..Len(js) }

Automation(i, freq, maxExec, model, start) ==
    [ name |-> i, projectId |-> i % 2, model |-> model, frequency |-> freq,
      enabled |-> TRUE, prompt |-> i, lastRun |-> Unset, executions |-> Unset,
      updatedAt |-> Unset, startDate |-> start, maxExecutions |-> maxExec ]

Models == {NoModel, "gpt-5-mini", "gpt-5.2"}
DefaultModels == {"gpt-5.2", "gpt-5-mini"}

\* the kinds of automation a project creates: one-shot or recurring, with a
\* cap of 0, 1 or 2 executions, eligible from the start; and a recurring,
\* uncapped one that becomes eligible two minutes later
Profiles ==
    { [frequency |-> f, maxExecutions |-> m, startDate |-> Epoch0] :
        f \in {"once", "every_5_minutes"}, m \in {0, 1, 2} }
    \cup { [frequency |-> "every_5_minutes", maxExecutions |-> Unset,
            startDate |-> Epoch0 + 2 * Minute] }

Config(defaultModel, track) ==
    [ defaultModel |-> defaultModel, track |-> track, agentNamePrefix |-> "auto " ]

\* the variables of the other specifications, at rest
PipeIdle == [ automation |-> Automation(1, "once", Unset, NoModel, Epoch0),
              now |-> Epoch0, counter |-> EmptyCounter ]
NotEvaluated ==
    [ evaluated |-> FALSE, pipeline |-> NoSkip,
      checks |-> [ notReady |-> NoSkip, runRecently |-> NoSkip,
                   maxExecutions |-> NoSkip, alreadyRun |-> NoSkip,
                   rateLimited |-> NoSkip ] ]
NoArray == [ taken |-> FALSE, fresh |-> TRUE, items |-> <<>> ]
RegIdle == [ op |-> "none", name |-> "", raised |-> FALSE, error |-> "",
             executorCalls |-> 0, held |-> NoArray ]
NoStep == [ ran |-> FALSE ]
LoopIdle == [ pc |-> "idle" ]
ControllerAtRest ==
    /\ agent = [ status |-> "paused", history |-> <<>>, error |-> "" ]
    /\ options = [ hotlTools |-> {}, messagePauseThreshold |-> Unset ]
    /\ notice = [ pending |-> FALSE, before |-> "" ]
    /\ steps = 0
    /\ lastStep = NoStep
    /\ loop = LoopIdle

\* freshly created automations that take the default model
SchedInit ==
    /\ \E ps \in [1..NJobs -> Profiles] :
         jobs = [ i \in 1..NJobs |->
                    Automation(i, ps[i].frequency, ps[i].maxExecutions, NoModel,
                               ps[i].startDate) ]
    /\ cfg \in { Config("gpt-5.2", t) : t \in BOOLEAN }
    /\ agents = <<>>
    /\ clock = Epoch0
    /\ ticks = 0
    /\ lastTick = NoReport

\* recurring uncapped automations whose model varies, under either default
RateInit ==
    /\ \E ms \in [1..NRateJobs -> Models] :
         jobs = [ i \in 1..NRateJobs |->
                    Automation(i, "every_5_minutes", Unset, ms[i], Epoch0) ]
    /\ cfg \in { Config(d, TRUE) : d \in DefaultModels }
    /\ agents = <<>>
    /\ clock = Epoch0
    /\ ticks = 0
    /\ lastTick = NoReport

Tick(step, fault) ==
    /\ ticks < MaxTicks
    /\ \E rep \in { handler(jobs, clock + step, cfg, fault) } :
           /\ clock' = clock + step
           /\ ticks' = ticks + 1
           /\ lastTick' = rep
           /\ jobs' = IF rep.committed THEN applyUpdates(jobs, rep.batch, 1) ELSE jobs
           /\ agents' = IF rep.committed THEN agents \o createdAgents(rep.batch, 1)
                        ELSE agents
    /\ UNCHANGED <<cfg, pin, pout, tools, lastCall, ctlVars>>

\* an external actor switches a disabled automation back on
ExternalEnable(i) ==
    /\ jobs[i].enabled = FALSE
    /\ jobs' = [ jobs EXCEPT ![i].enabled = TRUE ]
    /\ UNCHANGED <<agents, clock, ticks, cfg, lastTick, pin, pout, tools, lastCall,
                   ctlVars>>

SchedNext ==
    \/ \E step \in TickSteps : \E fault \in Faults(jobs) : Tick(step, fault)
    \/ \E i \in DOMAIN jobs : ExternalEnable(i)

NoFault == [kind |-> "none", id |-> 0]

\* the time between two invocations, the interval less the leeway included
RateTickSteps == {Minute, 4 * Minute, 5 * Minute}

RateNext == \E step \in RateTickSteps : Tick(step, NoFault)

Init ==
    /\ SchedInit
    /\ pin = PipeIdle /\ pout = NotEvaluated
    /\ tools = <<>> /\ lastCall = RegIdle
    /\ ControllerAtRest

Next == SchedNext

Spec == Init /\ [][Next]_vars

RateSpecInit ==
    /\ RateInit
    /\ pin = PipeIdle /\ pout = NotEvaluated
    /\ tools = <<>> /\ lastCall = RegIdle
    /\ ControllerAtRest

RateSpec == RateSpecInit /\ [][RateNext]_vars

----------------------------------------------------------------------------
(* The skip-check pipeline as a pure function: PipelineSpec draws one      *)
(* (automation, now, counter) and evaluates checkShouldSkipAutomation and  *)
(* each of the five checkers on it.                                        *)

\* 'once', the fourteen recurring tokens and one token the code does not know
PipeFrequencies ==
    { "once", "every_5_minutes", "every_10_minutes", "every_15_minutes",
      "every_30_minutes", "every_1_hour", "every_3_hours", "every_6_hours",
      "every_12_hours", "daily", "every_2_days", "every_4_days", "weekly",
      "every_2_weeks", "monthly", "fortnightly" }
PipeLastRuns ==
    { Unset, 0, Epoch0 - 4 * Minute, Epoch0 - oneDay, Epoch0 - oneDay + Minute,
      Epoch0 - 30 * oneDay + Minute }
\* the values of now: the present day, and an hour after the epoch, as a
\* caller with a simulated clock passes it
PipeNows == {60 * Minute, Epoch0, Epoch0 + 5 * Minute}
PipeCounts == {Unset} \cup 0..MaxCount
PipeCounters ==
    { [t \in ModelTypes |-> IF t = "small" THEN a ELSE b] :
        a \in {0, MAX_AGENTS_SMALL_MODEL}, b \in {0, MAX_AGENTS_LARGE_MODEL} }

PipeInit ==
    /\ \E f \in PipeFrequencies, lr \in PipeLastRuns, ex \in PipeCounts,
          mx \in PipeCounts, m \in Models, sd \in {Epoch0, Epoch0 + 3 * Minute},
          n \in PipeNows, c \in PipeCounters :
         pin = [ automation |->
                   [ Automation(1, f, mx, m, sd) EXCEPT !.lastRun = lr,
                                                        !.executions = ex ],
                 now |-> n, counter |-> c ]
    /\ pout = NotEvaluated
    /\ jobs = <<>> /\ agents = <<>> /\ clock = Epoch0 /\ ticks = 0
    /\ cfg = Config("gpt-5.2", TRUE) /\ lastTick = NoReport
    /\ tools = <<>> /\ lastCall = RegIdle
    /\ ControllerAtRest

Evaluate ==
    /\ pout.evaluated = FALSE
    /\ pout' = [ evaluated |-> TRUE,
                 pipeline |-> checkShouldSkipAutomation(pin.automation, pin.now,
                                                        pin.counter),
                 checks |->
                   [ notReady |-> checkNotReady(pin.automation, pin.now),
                     runRecently |-> checkRunRecently(pin.automation, pin.now),
                     maxExecutions |-> checkMaxExecutions(pin.automation),
                     alreadyRun |-> checkAlreadyRun(pin.automation),
                     rateLimited |-> checkRateLimited(pin.automation, pin.counter) ] ]
    /\ UNCHANGED <<pin, jobs, agents, clock, ticks, cfg, lastTick, tools, lastCall,
                   ctlVars>>

PipelineSpec == PipeInit /\ [][Evaluate]_vars

----------------------------------------------------------------------------
(* The tool registry (class ToolRegistry). tools models the Map: one entry *)
(* per name, in insertion order.                                           *)

ToolNames == {"search", "browse"}

\* what a tool's executor does when called
Executors == {"echo", "reports", "warns", "throwsError", "throwsString"}

ToolDefs == { [name |-> n, executor |-> e] : n \in ToolNames, e \in Executors }

ToolArgs == {"q1", "q2"}

NoError == "undefined"

\* tool.executor(args, context): the ToolResult it resolves to, or what it throws
executorOutcome(tool, args) ==
    CASE tool.executor = "echo" ->
            [ threw |-> FALSE,
              result |-> [success |-> TRUE, output |-> args, error |-> NoError] ]
      [] tool.executor = "reports" ->
            [ threw |-> FALSE,
              result |-> [success |-> FALSE, output |-> "", error |-> "no results"] ]
      [] tool.executor = "warns" ->
            [ threw |-> FALSE,
              result |-> [success |-> TRUE, output |-> args, error |-> "partial"] ]
      [] tool.executor = "throwsError" ->
            [ threw |-> TRUE, isError |-> TRUE, message |-> "Execution failed" ]
      [] tool.executor = "throwsString" ->
            [ threw |-> TRUE, isError |-> FALSE, value |-> "offline" ]

\* this.tools.has(name)
has(ts, name) == \E i \in DOMAIN ts : ts[i].name = name

\* this.tools.get(name), for a name that is present
getTool(ts, name) == ts[CHOOSE i \in DOMAIN ts : ts[i].name = name]

\* this.tools.set(name, tool): a new key goes last, a present key keeps its place
mapSet(ts, tool) ==
    IF has(ts, tool.name)
    THEN [ i \in DOMAIN ts |-> IF ts[i].name = tool.name THEN tool ELSE ts[i] ]
    ELSE Append(ts, tool)

\* this.tools.delete(name)
mapDelete(ts, name) ==
    LET Keep(t) == t.name # name IN SelectSeq(ts, Keep)

\* register without the duplicate check: the new definition replaces the old
registerOverwrites(ts, tool) ==
    [ raised |-> FALSE, error |-> "", tools |-> mapSet(ts, tool) ]

\* register(tool): [raised, error, tools]
register(ts, tool) ==
    IF has(ts, tool.name)
    THEN [ raised |-> TRUE, error |-> "already registered", tools |-> ts ]
    ELSE [ raised |-> FALSE, error |-> "", tools |-> mapSet(ts, tool) ]

\* unregister(name)
unregister(ts, name) ==
    [ raised |-> FALSE, error |-> "", tools |-> mapDelete(ts, name) ]

\* error instanceof Error ? error.message : String(error)
errorMessage(outcome) ==
    IF outcome.isError THEN outcome.message ELSE outcome.value

\* a missing tool reported as a structured failure instead of a raised error
toolNotFoundStructured(name) ==
    [ raised |-> FALSE, error |-> "",
      result |-> [ success |-> FALSE, output |-> "",
                   error |-> "Tool \"" \o name \o "\" not found" ],
      executorCalls |-> 0 ]

\* throw new Error(`Tool "${name}" not found`)
toolNotFound(name) ==
    [ raised |-> TRUE, error |-> "Tool \"" \o name \o "\" not found",
      result |-> [success |-> FALSE, output |-> "", error |-> NoError],
      executorCalls |-> 0 ]

\* execute without the guarded call: what the executor throws propagates
executeUnguarded(ts, name, args) ==
    IF ~has(ts, name)
    THEN toolNotFound(name)
    ELSE LET outcome == executorOutcome(getTool(ts, name), args)
         IN  IF outcome.threw
             THEN [ raised |-> TRUE, error |-> errorMessage(outcome),
                    result |-> [success |-> FALSE, output |-> "", error |-> NoError],
                    executorCalls |-> 1 ]
             ELSE [ raised |-> FALSE, error |-> "", result |-> outcome.result,
                    executorCalls |-> 1 ]

\* execute(name, args, context): [raised, error, result, executorCalls]
execute(ts, name, args) ==
    IF ~has(ts, name)
    THEN toolNotFound(name)
    ELSE LET outcome == executorOutcome(getTool(ts, name), args)
         IN  IF outcome.threw
             THEN [ raised |-> FALSE, error |-> "",
                    result |-> [ success |-> FALSE, output |-> "",
                                 error |-> errorMessage(outcome) ],
                    executorCalls |-> 1 ]
             ELSE [ raised |-> FALSE, error |-> "", result |-> outcome.result,
                    executorCalls |-> 1 ]

\* get size(): this.tools.size
size(ts) == Len(ts)

\* the Map's own storage handed out instead of a copy
getAvailableLive(ts) == [ taken |-> TRUE, fresh |-> FALSE, items |-> ts ]

\* getAvailable(): Array.from(this.tools.values()), a new array over the
\* registered definitions in insertion order
getAvailable(ts) == [ taken |-> TRUE, fresh |-> TRUE, items |-> ts ]

\* the array a caller holds after a registry call: a new array is no part of
\* the registry and stays as it is
heldAfter(held, ts) ==
    IF held.taken /\ ~held.fresh THEN [ held EXCEPT !.items = ts ] ELSE held

\* what a caller may do to the array it holds
MaxHeld == 2
Foreign == [ name |-> "browse", executor |-> "throwsString" ]
ArrayChanges == {"push", "pop", "truncate"}

\* array.push(Foreign), array.pop(), array.length = 0
changed(items, change) ==
    CASE change = "push" -> Append(items, Foreign)
      [] change = "pop" -> SubSeq(items, 1, Len(items) - 1)
      [] change = "truncate" -> <<>>

RegInit ==
    /\ tools = <<>>
    /\ lastCall = RegIdle
    /\ jobs = <<>> /\ agents = <<>> /\ clock = Epoch0 /\ ticks = 0
    /\ cfg = Config("gpt-5.2", TRUE) /\ lastTick = NoReport
    /\ pin = PipeIdle /\ pout = NotEvaluated
    /\ ControllerAtRest

Register(tool) ==
    /\ LET r == register(tools, tool)
       IN  /\ tools' = r.tools
           /\ lastCall' = [ op |-> "register", name |-> tool.name, tool |-> tool,
                            raised |-> r.raised, error |-> r.error,
                            executorCalls |-> 0,
                            held |-> heldAfter(lastCall.held, r.tools) ]
    /\ UNCHANGED <<schedVars, pipeVars, ctlVars>>

Unregister(name) ==
    /\ LET r == unregister(tools, name)
       IN  /\ tools' = r.tools
           /\ lastCall' = [ op |-> "unregister", name |-> name,
                            raised |-> r.raised, error |-> r.error,
                            executorCalls |-> 0,
                            held |-> heldAfter(lastCall.held, r.tools) ]
    /\ UNCHANGED <<schedVars, pipeVars, ctlVars>>

Execute(name, args) ==
    /\ LET r == execute(tools, name, args)
       IN  /\ tools' = tools
           /\ lastCall' = [ op |-> "execute", name |-> name, args |-> args,
                            raised |-> r.raised, error |-> r.error,
                            result |-> r.result,
                            executorCalls |-> r.executorCalls,
                            held |-> lastCall.held ]
    /\ UNCHANGED <<schedVars, pipeVars, ctlVars>>

Clear ==
    /\ tools' = <<>>
    /\ lastCall' = [ op |-> "clear", name |-> "", raised |-> FALSE, error |-> "",
                     executorCalls |-> 0,
                     held |-> heldAfter(lastCall.held, <<>>) ]
    /\ UNCHANGED <<schedVars, pipeVars, ctlVars>>

\* const tools = registry.getAvailable()
GetAvailable ==
    /\ tools' = tools
    /\ lastCall' = [ op |-> "getAvailable", name |-> "", raised |-> FALSE,
                     error |-> "", executorCalls |-> 0,
                     held |-> getAvailable(tools) ]
    /\ UNCHANGED <<schedVars, pipeVars, ctlVars>>

\* the caller changes the array it was given; an array that is the
\* registry's own storage takes the registry with it
ModifyArray(change) ==
    /\ lastCall.held.taken
    /\ change = "push" => Len(lastCall.held.items) < MaxHeld
    /\ change = "pop" => Len(lastCall.held.items) > 0
    /\ LET items == changed(lastCall.held.items, change)
       IN  /\ tools' = IF lastCall.held.fresh THEN tools ELSE items
           /\ lastCall' = [ op |-> "modifyArray", name |-> "", raised |-> FALSE,
                            error |-> "", executorCalls |-> 0,
                            held |-> [ lastCall.held EXCEPT !.items = items ] ]
    /\ UNCHANGED <<schedVars, pipeVars, ctlVars>>

RegNext ==
    \/ \E tool \in ToolDefs : Register(tool)
    \/ \E name \in ToolNames : Unregister(name)
    \/ \E name \in ToolNames : \E args \in ToolArgs : Execute(name, args)
    \/ Clear
    \/ GetAvailable
    \/ \E change \in ArrayChanges : ModifyArray(change)

RegistrySpec == RegInit /\ [][RegNext]_vars

----------------------------------------------------------------------------
(* The agent execution controller (processAgentController with the running *)
(* and awaiting_tool status handlers) and the agent-loop handler that runs *)
(* it when an agent document changes.                                      *)

MaxHistory == 4
MaxSteps == 2
MaxResumeSteps == 3

AgentStatuses == {"running", "awaiting_tool", "paused", "awaiting_human", "error"}

\* a HistoryItem; an optional field that is absent is ""
HistoryItem(type, role, name, arguments, call_id, output, status) ==
    [ type |-> type, role |-> role, name |-> name, arguments |-> arguments,
      call_id |-> call_id, output |-> output, status |-> status ]

UserMessage == HistoryItem("message", "user", "", "", "", "", "")
AssistantMessage == HistoryItem("message", "assistant", "", "", "", "", "")
SystemMessage == HistoryItem("message", "system", "", "", "", "", "")
FunctionCall(name, arguments, call_id) ==
    HistoryItem("function_call", "", name, arguments, call_id, "", "")
FunctionCallOutput(call_id, output, status) ==
    HistoryItem("function_call_output", "", "", "", call_id, output, status)

\* x || d for an optional string: undefined and '' are falsy
OrText(x, d) == IF x \notin {"", NoError} THEN x ELSE d

\* JSON texts that parse, and the argument object each denotes
JsonTexts == {"{}", "{\"query\":\"q1\"}", "{\"query\":\"q2\"}"}

\* JSON.parse(text): the value, or the SyntaxError it throws
JSONparse(text) ==
    CASE text = "{}" ->
            [ threw |-> FALSE, value |-> "no arguments", message |-> "" ]
      [] text = "{\"query\":\"q1\"}" ->
            [ threw |-> FALSE, value |-> "q1", message |-> "" ]
      [] text = "{\"query\":\"q2\"}" ->
            [ threw |-> FALSE, value |-> "q2", message |-> "" ]
      [] OTHER ->
            [ threw |-> TRUE, value |-> "", message |-> "Unexpected token in JSON" ]

\* JSON.stringify(value): an object gives its text, a string is quoted
JSONstringify(value) ==
    IF \E t \in JsonTexts : JSONparse(t).value = value
    THEN CHOOSE t \in JsonTexts : JSONparse(t).value = value
    ELSE "\"" \o value \o "\""

\* JSON.stringify({ error: e }): an undefined error leaves an empty object
stringifyError(e) ==
    IF e = NoError THEN "{}" ELSE "{\"error\":\"" \o e \o "\"}"

\* what the model provider (and the rulebook load before it) does in one step
LlmOutcome(kind, name, arguments, returns, message) ==
    [ kind |-> kind, name |-> name, arguments |-> arguments, returns |-> returns,
      message |-> message ]

\* the provider was not reached
NoProvider == LlmOutcome("none", "", "", "", "")

\* what processAgentController gives back: false, a result, or a raised error
NotProcessed(warned) ==
    [ returned |-> "false", raisedError |-> "",
      result |-> [ history |-> <<>>, status |-> "", error |-> NoError ],
      llmCalls |-> 0, registryCalls |-> 0, executorCalls |-> 0, warned |-> warned,
      provider |-> NoProvider ]

Returned(history, status, error, llmCalls, registryCalls, executorCalls) ==
    [ returned |-> "result", raisedError |-> "",
      result |-> [ history |-> history, status |-> status, error |-> error ],
      llmCalls |-> llmCalls, registryCalls |-> registryCalls,
      executorCalls |-> executorCalls, warned |-> FALSE, provider |-> NoProvider ]

Raised(message) ==
    [ returned |-> "raised", raisedError |-> message,
      result |-> [ history |-> <<>>, status |-> "", error |-> NoError ],
      llmCalls |-> 0, registryCalls |-> 0, executorCalls |-> 0, warned |-> FALSE,
      provider |-> NoProvider ]

\* ['paused', 'awaiting_human'].includes(agent.status), with only 'paused'
isNotProcessedPausedOnly(status) == status \in {"paused"}

\* ['paused', 'awaiting_human'].includes(agent.status)
isNotProcessed(status) == status \in {"paused", "awaiting_human"}

\* a threshold one entry too long
MESSAGE_PAUSE_THRESHOLD_PlusOne(opts) ==
    (IF Truthy(opts.messagePauseThreshold) THEN opts.messagePauseThreshold ELSE 4) + 1

\* options.messagePauseThreshold || 4
MESSAGE_PAUSE_THRESHOLD(opts) ==
    IF Truthy(opts.messagePauseThreshold) THEN opts.messagePauseThreshold ELSE 4

\* history.slice(-n), n > 0
slice(history, n) ==
    IF Len(history) <= n THEN history
    ELSE SubSeq(history, Len(history) - n + 1, Len(history))

\* msg.type === 'message' && msg.role !== 'user'
isAssistantMessage(msg) == msg.type = "message" /\ msg.role # "user"

\* the guard without the length test on the last entries
allLastNAreAssistantMessagesAnyLength(history, opts) ==
    LET lastNMessages == slice(history, MESSAGE_PAUSE_THRESHOLD(opts))
    IN  \A k \in DOMAIN lastNMessages : isAssistantMessage(lastNMessages[k])

allLastNAreAssistantMessages(history, opts) ==
    LET lastNMessages == slice(history, MESSAGE_PAUSE_THRESHOLD(opts))
    IN  /\ Len(lastNMessages) = MESSAGE_PAUSE_THRESHOLD(opts)
        /\ \A k \in DOMAIN lastNMessages : isAssistantMessage(lastNMessages[k])

\* the pause guard of processAgentController
pauseGuard(history, opts) ==
    /\ history # <<>>
    /\ isAssistantMessage(history[Len(history)])
    /\ allLastNAreAssistantMessages(history, opts)

LlmOutcomes ==
    { LlmOutcome("message", "", "", r, "") : r \in {"appended", "outputOnly"} }
    \cup { LlmOutcome("function_call", "search", a, "appended", "") :
             a \in {"{\"query\":\"q2\"}", "{oops", ""} }
    \cup { LlmOutcome("function_call", "browse", "{\"query\":\"q2\"}", "appended", "") }
    \cup { LlmOutcome("function_call", "search", "{\"query\":\"q2\"}", "disagrees", "") }
    \cup { LlmOutcome("throwsError", "", "", "", "LLM failed"),
           LlmOutcome("throwsString", "", "", "", "timeout"),
           LlmOutcome("rulebookThrows", "", "", "", "rulebook unavailable") }

\* result.output of llmProvider.call
llmOutput(llm) ==
    IF llm.kind = "function_call"
    THEN FunctionCall(llm.name, llm.arguments, "call_2")
    ELSE AssistantMessage

\* result.history of llmProvider.call, given the history it was sent: with
\* the output appended, the output alone, or ending in a call of another tool
\* than the output names
llmHistory(llm, sent) ==
    CASE llm.returns = "appended" -> Append(sent, llmOutput(llm))
      [] llm.returns = "disagrees" ->
            Append(sent, FunctionCall("browse", llm.arguments, "call_2"))
      [] OTHER -> << llmOutput(llm) >>

\* the next status for a tool call, ignoring the human-in-the-loop set
callStatusNoHotl(name, opts) == "awaiting_tool"

\* hotlTools.has(name) ? 'awaiting_human' : 'awaiting_tool'
callStatus(name, opts) ==
    IF name \in opts.hotlTools THEN "awaiting_human" ELSE "awaiting_tool"

\* the catch block of running, pausing the record instead
runningCatchPauses(history, message, llmCalls) ==
    Returned(history, "paused", NoError, llmCalls, 0, 0)

\* the catch block of running
runningCatch(history, message, llmCalls) ==
    Returned(history, "error", message, llmCalls, 0, 0)

\* the try and catch blocks of running
runningResult(history, opts, llm) ==
    CASE llm.kind = "rulebookThrows" -> runningCatch(history, llm.message, 0)
      [] llm.kind \in {"throwsError", "throwsString"} ->
            runningCatch(history, llm.message, 1)
      [] OTHER ->
            LET output == llmOutput(llm)
                updatedHistoryRaw == llmHistory(llm, <<SystemMessage>> \o history)
                NotSystem(item) == item.role # "system"
                updatedHistory == SelectSeq(updatedHistoryRaw, NotSystem)
            IN  IF output.type = "function_call"
                THEN Returned(updatedHistory, callStatus(output.name, opts),
                              NoError, 1, 0, 0)
                ELSE Returned(updatedHistory, "paused", NoError, 1, 0, 0)

\* running(agent, history, options), with what the provider did on record
running(history, opts, llm) ==
    [ runningResult(history, opts, llm) EXCEPT !.provider = llm ]

\* a structured tool failure moving the record to 'error'
toolFailedToError(history, callId, result, executorCalls) ==
    Returned(Append(history, FunctionCallOutput(callId, stringifyError(result.error),
                                                "completed")),
             "error", NoError, 0, 1, executorCalls)

\* the branch of awaiting_tool for !result.success || result.error
toolFailed(history, callId, result, executorCalls) ==
    Returned(Append(history, FunctionCallOutput(callId, stringifyError(result.error),
                                                "completed")),
             "running", NoError, 0, 1, executorCalls)

\* the branch of awaiting_tool for a successful result
toolSucceeded(history, callId, result, executorCalls) ==
    LET parsed == JSONparse(result.output)
        outputData == IF parsed.threw THEN result.output ELSE parsed.value
    IN  Returned(Append(history, FunctionCallOutput(callId, JSONstringify(outputData),
                                                    "completed")),
                 "running", NoError, 0, 1, executorCalls)

\* the catch block of awaiting_tool: toolRegistry.execute threw
toolThrew(history, callId, message) ==
    Returned(Append(history, FunctionCallOutput(callId, stringifyError(message),
                                                "failed")),
             "error", NoError, 0, 1, 0)

\* a result taken as a failure by its success flag alone
resultFailedBySuccessOnly(result) == ~result.success

\* !result.success || result.error
resultFailed(result) == ~result.success \/ result.error \notin {"", NoError}

\* awaiting_tool(agent, history, options), with the registry holding ts
awaiting_tool(history, opts, ts) ==
    IF history = <<>>
    THEN Raised("Cannot read properties of undefined (reading 'arguments')")
    ELSE LET output == history[Len(history)]
             args == JSONparse(OrText(output.arguments, "{}"))
             name == OrText(output.name, "")
             callId == OrText(output.call_id, "")
         IN  IF args.threw THEN Raised(args.message)
             ELSE LET r == execute(ts, name, args.value)
                  IN  IF r.raised THEN toolThrew(history, callId, r.error)
                      ELSE IF resultFailed(r.result)
                           THEN toolFailed(history, callId, r.result, r.executorCalls)
                           ELSE toolSucceeded(history, callId, r.result,
                                              r.executorCalls)

\* a null or undefined agent
NoAgent == [ missing |-> TRUE ]

\* processAgentController(agent, options)
processAgentController(ag, opts, ts, llm) ==
    IF ag = NoAgent THEN NotProcessed(TRUE)
    ELSE IF isNotProcessed(ag.status) THEN NotProcessed(FALSE)
    ELSE IF pauseGuard(ag.history, opts)
         THEN Returned(ag.history, "paused", NoError, 0, 0, 0)
    ELSE IF ag.status = "running" THEN running(ag.history, opts, llm)
    ELSE IF ag.status = "awaiting_tool" THEN awaiting_tool(ag.history, opts, ts)
    ELSE NotProcessed(TRUE)

\* updateData: what after.ref.update writes of status, history and error
updateData(agentResponse) ==
    [ status |-> agentResponse.status,
      history |-> agentResponse.history,
      error |-> OrText(agentResponse.error, "") ]

\* the agent-loop handler's write-back: [wrote, agent]
writeBack(current, response) ==
    IF response.returned # "result" \/ current.status \in {"paused", "error"}
    THEN [ wrote |-> FALSE, agent |-> current ]
    ELSE [ wrote |-> TRUE, agent |-> updateData(response.result) ]

\* histories of at most n entries, as an agent document may hold them
HistoryEntries ==
    { UserMessage, AssistantMessage,
      FunctionCall("search", "{\"query\":\"q1\"}", "call_1"),
      FunctionCallOutput("call_1", "{\"query\":\"q1\"}", "completed") }

Histories(n) == UNION { [1..k -> HistoryEntries] : k \in 0..n }

ControllerOptions ==
    { [ hotlTools |-> {}, messagePauseThreshold |-> Unset ],
      [ hotlTools |-> {"browse"}, messagePauseThreshold |-> Unset ],
      [ hotlTools |-> {}, messagePauseThreshold |-> 2 ] }

ControllerRegistries ==
    { <<>>,
      << [name |-> "search", executor |-> "echo"],
         [name |-> "browse", executor |-> "echo"] >>,
      << [name |-> "search", executor |-> "reports"] >>,
      << [name |-> "search", executor |-> "warns"] >>,
      << [name |-> "search", executor |-> "throwsError"] >> }

\* a document just written by the scheduler or an external caller
CreatedNotice == [ pending |-> TRUE, before |-> "undefined" ]

ControllerInit ==
    /\ \E s \in AgentStatuses \cup {"archived"}, h \in Histories(MaxHistory) :
         agent = [ status |-> s, history |-> h, error |-> "" ]
    /\ options \in ControllerOptions
    /\ tools \in ControllerRegistries
    /\ notice = CreatedNotice
    /\ steps = 0
    /\ lastStep = NoStep
    /\ loop = LoopIdle
    /\ lastCall = RegIdle
    /\ jobs = <<>> /\ agents = <<>> /\ clock = Epoch0 /\ ticks = 0
    /\ cfg = Config("gpt-5.2", TRUE) /\ lastTick = NoReport
    /\ pin = PipeIdle /\ pout = NotEvaluated

\* what a controller step can return, over everything the provider may do
Responses(ag, opts, ts) ==
    { processAgentController(ag, opts, ts, llm) : llm \in LlmOutcomes }

\* the agent-loop handler on the pending change notification
HandleNotice ==
    /\ notice.pending
    /\ steps' = steps + 1
    /\ IF notice.before = agent.status
       THEN /\ lastStep' = [ ran |-> FALSE ]
            /\ notice' = [ pending |-> FALSE, before |-> "" ]
            /\ agent' = agent
       ELSE \E response \in Responses(agent, options, tools) :
              LET w == writeBack(agent, response)
              IN  /\ lastStep' = [ ran |-> TRUE, input |-> agent,
                                   response |-> response, wrote |-> w.wrote ]
                  /\ agent' = w.agent
                  /\ notice' = IF w.wrote
                               THEN [ pending |-> TRUE, before |-> agent.status ]
                               ELSE [ pending |-> FALSE, before |-> "" ]
    /\ UNCHANGED <<options, tools, lastCall, loop, schedVars, pipeVars>>

Step ==
    /\ steps < MaxSteps
    /\ HandleNotice

ControllerNext == Step

ControllerSpec == ControllerInit /\ [][ControllerNext]_vars

\* an external actor sets a paused or failed agent back to 'running', adding
\* nothing to its history; the write raises a change notification
ExternalResume ==
    /\ steps < MaxResumeSteps
    /\ ~notice.pending
    /\ agent.status \in {"paused", "error"}
    /\ agent' = [ agent EXCEPT !.status = "running" ]
    /\ notice' = [ pending |-> TRUE, before |-> agent.status ]
    /\ UNCHANGED <<options, steps, lastStep, tools, lastCall, loop, schedVars,
                   pipeVars>>

ResumeStep ==
    /\ steps < MaxResumeSteps
    /\ HandleNotice

ResumeNext == ResumeStep \/ ExternalResume

\* the registry plays no part in the pause guard: one registry whose tools
\* succeed
ResumeInit ==
    /\ ControllerInit
    /\ tools = << [name |-> "search", executor |-> "echo"],
                  [name |-> "browse", executor |-> "echo"] >>

ResumeSpec == ResumeInit /\ [][ResumeNext]_vars

----------------------------------------------------------------------------
(* One invocation of the agent-loop handler, await by await: the controller *)
(* step on the notification's snapshot, the re-read of the document, the   *)
(* update. Between them an external actor may pause, fail or delete the    *)
(* document.                                                               *)

\* the histories of the documents the notifications are about
LoopHistories ==
    { <<>>,
      <<UserMessage>>,
      <<UserMessage, FunctionCall("search", "{\"query\":\"q1\"}", "call_1")>>,
      <<AssistantMessage, AssistantMessage>> }

\* event.data and event.params: the snapshot after the change (NoAgent for
\* null), the status before it ("undefined" when there was no document) and
\* params.agentId ("" when absent)
LoopEvents ==
    { [ after |-> a, beforeStatus |-> b, agentId |-> i ] :
        a \in {NoAgent} \cup { [ status |-> s, history |-> h, error |-> "" ] :
                                  s \in AgentStatuses \cup {"archived"},
                                  h \in LoopHistories },
        b \in AgentStatuses \cup {"undefined"},
        i \in {"agent-1", ""} }

\* a comparison that never finds the status unchanged
statusUnchangedNever(event) == FALSE

\* beforeData?.status === afterData?.status
statusUnchanged(event) == event.beforeStatus = event.after.status

\* the handler returns before the controller step
returnsEarly(event) ==
    IF event.after = NoAgent THEN TRUE
    ELSE statusUnchanged(event) \/ event.agentId = ""

\* the re-read document stops the write-back
stopsWriteBack(currentAgentData) ==
    IF currentAgentData = NoAgent THEN TRUE
    ELSE currentAgentData.status \in {"paused", "error"}

LoopInit ==
    /\ \E event \in LoopEvents :
         /\ agent = event.after
         /\ loop = [ pc |-> "triggered", event |-> event, stepped |-> FALSE,
                     response |-> NotProcessed(FALSE), wrote |-> FALSE,
                     updateRaised |-> FALSE, external |-> "",
                     externalAt |-> "", externalDoc |-> NoAgent ]
    /\ options \in ControllerOptions
    /\ tools \in ControllerRegistries
    /\ notice = [ pending |-> FALSE, before |-> "" ]
    /\ steps = 0
    /\ lastStep = NoStep
    /\ lastCall = RegIdle
    /\ jobs = <<>> /\ agents = <<>> /\ clock = Epoch0 /\ ticks = 0
    /\ cfg = Config("gpt-5.2", TRUE) /\ lastTick = NoReport
    /\ pin = PipeIdle /\ pout = NotEvaluated

\* from the trigger to the end of "await processAgentController(...)"
Process ==
    /\ loop.pc = "triggered"
    /\ IF returnsEarly(loop.event)
       THEN loop' = [ loop EXCEPT !.pc = "done" ]
       ELSE \E response \in Responses(loop.event.after, options, tools) :
              loop' = [ loop EXCEPT
                          !.stepped = TRUE,
                          !.response = response,
                          !.pc = IF response.returned = "result"
                                 THEN "processed" ELSE "done" ]
    /\ UNCHANGED <<agent, options, notice, steps, lastStep, tools, lastCall,
                   schedVars, pipeVars>>

\* "await after.ref.get()" and the tests on what it read
ReRead ==
    /\ loop.pc = "processed"
    /\ loop' = [ loop EXCEPT !.pc = IF stopsWriteBack(agent) THEN "done"
                                     ELSE "read" ]
    /\ UNCHANGED <<agent, options, notice, steps, lastStep, tools, lastCall,
                   schedVars, pipeVars>>

\* "await after.ref.update(updateData)"; updating a deleted document fails
Update ==
    /\ loop.pc = "read"
    /\ IF agent = NoAgent
       THEN /\ loop' = [ loop EXCEPT !.pc = "done", !.updateRaised = TRUE ]
            /\ agent' = agent
       ELSE /\ loop' = [ loop EXCEPT !.pc = "done", !.wrote = TRUE ]
            /\ agent' = updateData(loop.response.result)
    /\ UNCHANGED <<options, notice, steps, lastStep, tools, lastCall,
                   schedVars, pipeVars>>

\* an external actor pauses the agent or marks it failed while the handler
\* is in flight
ExternalSet(status) ==
    /\ loop.pc \in {"triggered", "processed", "read"}
    /\ loop.external = ""
    /\ agent # NoAgent
    /\ agent' = [ agent EXCEPT !.status = status ]
    /\ loop' = [ loop EXCEPT !.external = status, !.externalAt = loop.pc,
                             !.externalDoc = agent' ]
    /\ UNCHANGED <<options, notice, steps, lastStep, tools, lastCall,
                   schedVars, pipeVars>>

\* an external actor deletes the document while the handler is in flight
ExternalDelete ==
    /\ loop.pc \in {"triggered", "processed", "read"}
    /\ loop.external = ""
    /\ agent # NoAgent
    /\ agent' = NoAgent
    /\ loop' = [ loop EXCEPT !.external = "deleted", !.externalAt = loop.pc ]
    /\ UNCHANGED <<options, notice, steps, lastStep, tools, lastCall,
                   schedVars, pipeVars>>

LoopNext ==
    \/ Process
    \/ ReRead
    \/ Update
    \/ \E status \in {"paused", "error"} : ExternalSet(status)
    \/ ExternalDelete

LoopSpec == LoopInit /\ [][LoopNext]_vars

----------------------------------------------------------------------------
(* Properties. *)

Range(seq) == { seq[k] : k \in DOMAIN seq }

\* how many staged mutations of one kind a batch holds for an automation
CountOps(batch, kind, id) ==
    Cardinality({ k \in DOMAIN batch : batch[k].op = kind /\ batch[k].id = id })

\* how many agent documents an automation has produced
AgentsOf(ags, id) == Cardinality({ k \in DOMAIN ags : ags[k].automationId = id })

\* the automation's recorded executions, 0 if unset
Executions(automation) ==
    IF automation.executions = Unset THEN 0 ELSE automation.executions

\* this step is an invocation of the handler
IsTick == ticks' = ticks + 1

\* C1: for every job a tick creates an agent for, the staged update sets
\* executions to the old executions (0 if unset) plus 1, and sets enabled to
\* false iff the frequency is 'once' or the new executions >= maxExecutions.
C1_StagedUpdateDisablesAtCap ==
    [][ IsTick =>
          \A k \in DOMAIN lastTick'.batch :
             LET m == lastTick'.batch[k]
                 old == jobs[m.id]
             IN  m.op = "update" =>
                   /\ m.data.executions = Executions(old) + 1
                   /\ (m.data.enabled = FALSE) <=>
                        \/ old.frequency = "once"
                        \/ /\ old.maxExecutions # Unset
                           /\ m.data.executions >= old.maxExecutions ]_vars

\* C2 as stated: a 'once' job whose lastRun is set is skipped by the pipeline
\* with reason already_run, whatever now, its other fields and the counter.
C2_OnceAfterRunAlwaysAlreadyRun ==
    ( /\ pout.evaluated
      /\ pin.automation.frequency = "once"
      /\ pin.automation.lastRun \notin {Unset, 0} )
    => /\ pout.pipeline.shouldSkip
       /\ pout.pipeline.reasonType = "already_run"

\* C2 (amended): a 'once' job whose lastRun is set (non-zero) is always
\* skipped by the pipeline; the reason is not_ready when now < startDate,
\* else max_executions when executions (0 if unset) >= a non-zero
\* maxExecutions, else already_run.
C2_OnceAfterRunAlwaysSkipped ==
    ( /\ pout.evaluated
      /\ pin.automation.frequency = "once"
      /\ pin.automation.lastRun \notin {Unset, 0} )
    => /\ pout.pipeline.shouldSkip
       /\ pout.pipeline.reasonType =
            IF pin.now < pin.automation.startDate THEN "not_ready"
            ELSE IF /\ pin.automation.maxExecutions \notin {Unset, 0}
                    /\ Executions(pin.automation) >= pin.automation.maxExecutions
                 THEN "max_executions"
            ELSE "already_run"

C2_Witness ==
    /\ pout.evaluated
    /\ pin.automation.frequency = "once"
    /\ pin.automation.lastRun \notin {Unset, 0}
    /\ pin.now > pin.automation.startDate
    /\ pin.counter["large"] = MAX_AGENTS_LARGE_MODEL
    /\ pout.pipeline.reasonType = "already_run"

\* C3: within one tick, the agents created whose model belongs to a class
\* never outnumber that class's cap (2 small, 5 large), under every default
\* model.
C3_ClassCapRespected ==
    \A c \in ModelTypes :
        Cardinality({ k \in DOMAIN lastTick.batch :
                        /\ lastTick.batch[k].op = "set"
                        /\ getModelType(lastTick.batch[k].data.model) = c })
          <= IF c = "small" THEN MAX_AGENTS_SMALL_MODEL ELSE MAX_AGENTS_LARGE_MODEL

\* C4: in one tick, of the k jobs of one model class that pass the first four
\* checks, the first min(k, cap) in load order produce an agent and every
\* later one is skipped as rate_limited.
C4_FirstCapJobsRunRestRateLimited ==
    [][ (IsTick /\ lastTick'.outcome = "ok") =>
          \A c \in ModelTypes :
             LET InClass(id) ==
                    /\ ~checkNotReady(jobs[id], clock').shouldSkip
                    /\ ~checkRunRecently(jobs[id], clock').shouldSkip
                    /\ ~checkMaxExecutions(jobs[id]).shouldSkip
                    /\ ~checkAlreadyRun(jobs[id]).shouldSkip
                    /\ getModelType(agentModel(jobs[id], cfg.defaultModel)) = c
                 K == SelectSeq(enabledDocs(jobs, 1), InClass)
                 cap == IF c = "small" THEN MAX_AGENTS_SMALL_MODEL
                        ELSE MAX_AGENTS_LARGE_MODEL
             IN  \A j \in DOMAIN K :
                    IF j <= cap
                    THEN K[j] \in Range(lastTick'.eligible)
                    ELSE [id |-> K[j], reasonType |-> "rate_limited"]
                            \in Range(lastTick'.skipped) ]_vars

\* C5: a tick that loads and stages without failure calls commit exactly once
\* if some job was eligible and writes nothing otherwise; the batch holds one
\* agent creation and one job update for each eligible job and for no other.
C5_CommitOnceIffEligible ==
    [][ (IsTick /\ lastTick'.raised \notin {"load failed", "buildContext failed"}) =>
          LET E == Range(lastTick'.eligible)
              S == { r.id : r \in Range(lastTick'.skipped) }
              batch == lastTick'.batch
          IN  /\ E \cup S = { i \in DOMAIN jobs : jobs[i].enabled }
              /\ E \cap S = {}
              /\ lastTick'.commitCalls = IF E # {} THEN 1 ELSE 0
              /\ Len(batch) = 2 * Cardinality(E)
              /\ \A i \in DOMAIN jobs :
                    /\ CountOps(batch, "set", i) = IF i \in E THEN 1 ELSE 0
                    /\ CountOps(batch, "update", i) = IF i \in E THEN 1 ELSE 0
              /\ IF E # {} /\ lastTick'.outcome = "ok"
                 THEN /\ \A i \in DOMAIN jobs :
                           /\ AgentsOf(agents', i) =
                                AgentsOf(agents, i) + IF i \in E THEN 1 ELSE 0
                           /\ i \in E => jobs'[i].lastRun = clock'
                           /\ i \notin E => jobs'[i] = jobs[i]
                 ELSE jobs' = jobs /\ agents' = agents ]_vars

C5_Witness ==
    /\ lastTick.outcome = "ok"
    /\ lastTick.committed
    /\ lastTick.commitCalls = 1
    /\ Len(lastTick.eligible) = 1
    /\ Len(lastTick.skipped) >= 1
    /\ Len(agents) >= 1

IsCronError(ev) == ev.event = "automation_cron_error"

\* C6: if loading the jobs or staging a job's mutations fails, the tick
\* commits nothing (also nothing of what was staged before the failure),
\* logs the error once, sends one automation_cron_error event carrying the
\* message to the tracking sink when one is configured, and rethrows.
C6_FailedTickCommitsNothing ==
    [][ (IsTick /\ lastTick'.raised \in {"load failed", "buildContext failed"})
          => /\ jobs' = jobs
             /\ agents' = agents
             /\ lastTick'.outcome = "thrown"
             /\ lastTick'.error = lastTick'.raised
             /\ lastTick'.commitCalls = 0
             /\ lastTick'.committed = FALSE
             /\ lastTick'.errorLogs = 1
             /\ SelectSeq(lastTick'.tracked, IsCronError) =
                  IF cfg.track THEN << cronErrorEvent(lastTick'.raised) >> ELSE << >>
      ]_vars

C6_Witness ==
    /\ lastTick.outcome = "thrown"
    /\ lastTick.error = "buildContext failed"
    /\ Len(lastTick.batch) > 0
    /\ agents = <<>>
    /\ \A i \in DOMAIN jobs : jobs[i].lastRun = Unset

\* C7: over any sequence of ticks with atomic commits, failed ticks and
\* external re-enabling included, a 'once' job produces at most one agent.
C7_OnceJobAtMostOneAgent ==
    \A i \in DOMAIN jobs :
        jobs[i].frequency = "once" => AgentsOf(agents, i) <= 1

C7_Witness ==
    \E i \in DOMAIN jobs :
        /\ jobs[i].frequency = "once"
        /\ AgentsOf(agents, i) = 1
        /\ jobs[i].enabled
        /\ lastTick.outcome = "ok"
        /\ [id |-> i, reasonType |-> "already_run"] \in Range(lastTick.skipped)

\* C8: for every job with a finite maxExecutions, 0 and 1 included,
\* executions never exceeds maxExecutions.
C8_ExecutionsWithinCap ==
    \A i \in DOMAIN jobs :
        jobs[i].maxExecutions # Unset =>
            Executions(jobs[i]) <= jobs[i].maxExecutions

\* C9: register of a present name raises and leaves the registered tool in
\* place, register of an absent name inserts the tool; unregister never
\* raises, leaves has(name) false and changes nothing when the name is
\* absent; a register that follows the unregister of its name succeeds.
C9_RegisterUnregister ==
    [][ /\ \A tool \in ToolDefs :
             Register(tool) =>
                IF has(tools, tool.name)
                THEN /\ lastCall'.raised
                     /\ tools' = tools
                     /\ getTool(tools', tool.name) = getTool(tools, tool.name)
                ELSE /\ ~lastCall'.raised
                     /\ has(tools', tool.name)
                     /\ getTool(tools', tool.name) = tool
                     /\ Len(tools') = Len(tools) + 1
        /\ \A name \in ToolNames :
             Unregister(name) =>
                /\ ~lastCall'.raised
                /\ ~has(tools', name)
                /\ ~has(tools, name) => tools' = tools
        /\ \A tool \in ToolDefs :
             ( /\ lastCall.op = "unregister"
               /\ lastCall.name = tool.name
               /\ Register(tool) )
             => ~lastCall'.raised /\ has(tools', tool.name) ]_vars

C9_Witness ==
    /\ lastCall.op = "register"
    /\ lastCall.raised
    /\ has(tools, lastCall.name)
    /\ getTool(tools, lastCall.name) # lastCall.tool

\* C10: execute of a registered tool never raises; when the executor throws
\* it returns success = false, output '' and the thrown message as error;
\* when the executor returns a result it returns that result unchanged.
C10_ExecuteNeverRaises ==
    [][ \A name \in ToolNames : \A args \in ToolArgs :
          ( Execute(name, args) /\ has(tools, name) ) =>
             LET outcome == executorOutcome(getTool(tools, name), args)
             IN  /\ ~lastCall'.raised
                 /\ lastCall'.executorCalls = 1
                 /\ IF outcome.threw
                    THEN lastCall'.result =
                           [ success |-> FALSE, output |-> "",
                             error |-> IF outcome.isError THEN outcome.message
                                       ELSE outcome.value ]
                    ELSE lastCall'.result = outcome.result ]_vars

C10_Witness ==
    /\ lastCall.op = "execute"
    /\ has(tools, lastCall.name)
    /\ ~lastCall.raised
    /\ lastCall.result = [ success |-> FALSE, output |-> "",
                           error |-> "Execution failed" ]

\* C11: execute(name, ...) for a name that is not registered raises a
\* not-found error (no structured result is returned), calls no executor and
\* leaves the registry as it was.
C11_ExecuteMissingToolRaises ==
    [][ ( /\ lastCall'.op = "execute"
          /\ ~has(tools, lastCall'.name) )
        => /\ lastCall'.raised
           /\ lastCall'.error = "Tool \"" \o lastCall'.name \o "\" not found"
           /\ lastCall'.executorCalls = 0
           /\ tools' = tools ]_vars

C11_Witness ==
    /\ lastCall.op = "execute"
    /\ tools # <<>>
    /\ ~has(tools, lastCall.name)
    /\ lastCall.raised
    /\ lastCall.executorCalls = 0

\* the five checkers in the order the pipeline is said to apply them
PipelineOrder(automation, now, counter) ==
    << checkNotReady(automation, now),
       checkRunRecently(automation, now),
       checkMaxExecutions(automation),
       checkAlreadyRun(automation),
       checkRateLimited(automation, counter) >>

PipelineKinds ==
    << "not_ready", "run_recently", "max_executions", "already_run", "rate_limited" >>

Tripped(results) == { k \in DOMAIN results : results[k].shouldSkip }

\* C20: for every (job, now, counter) the pipeline reports the reason kind of
\* the first checker, in the order not-ready, run-recently, max-executions,
\* already-run, rate-limited, whose own predicate holds, and the job is
\* eligible exactly when no checker's predicate holds.
C20_PipelineReportsFirstTripped ==
    pout.evaluated =>
        LET results == PipelineOrder(pin.automation, pin.now, pin.counter)
            tripped == Tripped(results)
        IN  /\ \A k \in tripped : results[k].reasonType = PipelineKinds[k]
            /\ (tripped = {}) <=> ~pout.pipeline.shouldSkip
            /\ tripped # {} =>
                  LET first == CHOOSE k \in tripped : \A j \in tripped : k <= j
                  IN  pout.pipeline.reasonType = PipelineKinds[first]

\* several checkers trip at once and the earlier one is reported
C20_Witness ==
    /\ pout.evaluated
    /\ LET results == PipelineOrder(pin.automation, pin.now, pin.counter)
       IN  /\ {2, 5} \subseteq Tripped(results)
           /\ 1 \notin Tripped(results)
    /\ pout.pipeline.reasonType = "run_recently"

\* the latest controller step ran on a record with this status
SteppedOn(status) == lastStep.ran /\ lastStep.input.status = status

\* the last n entries of a history exist and are all assistant messages
LastAllAssistant(history, n) ==
    /\ Len(history) >= n
    /\ \A k \in (Len(history) - n + 1)..Len(history) :
          history[k].type = "message" /\ history[k].role = "assistant"

\* the pause threshold in force: the configured one, 4 by default
ThresholdInForce ==
    IF options.messagePauseThreshold = Unset THEN 4 ELSE options.messagePauseThreshold

\* C12: a controller step on a 'paused' or 'awaiting_human' record returns
\* false, calls neither the model provider nor the tool registry, and leaves
\* the record's history and status as they were, whatever the history holds.
C12_PausedAndAwaitingHumanNotProcessed ==
    ( lastStep.ran /\ lastStep.input.status \in {"paused", "awaiting_human"} )
    => /\ lastStep.response.returned = "false"
       /\ lastStep.response.llmCalls = 0
       /\ lastStep.response.registryCalls = 0
       /\ ~lastStep.wrote
       /\ agent = lastStep.input

\* an 'awaiting_human' record the pause guard would otherwise have caught
C12_Witness ==
    /\ SteppedOn("awaiting_human")
    /\ LastAllAssistant(lastStep.input.history, ThresholdInForce)
    /\ lastStep.response.returned = "false"
    /\ agent.status = "awaiting_human"

\* C13 as stated: a controller step on an 'error' record returns false (no
\* new status), for every history.
C13_ErrorRecordNotProcessed ==
    SteppedOn("error") => lastStep.response.returned = "false"

\* C14: a step on a 'running' record whose model call returns a tool-call
\* request yields 'awaiting_human' if the tool name is in the human-in-the-loop
\* set and 'awaiting_tool' otherwise; with the empty set no step on a running
\* record yields 'awaiting_human'.
C14_ToolCallStatusFollowsHotlSet ==
    SteppedOn("running") =>
        /\ lastStep.response.provider.kind = "function_call" =>
              /\ lastStep.response.returned = "result"
              /\ lastStep.response.result.status =
                    IF lastStep.response.provider.name \in options.hotlTools
                    THEN "awaiting_human" ELSE "awaiting_tool"
        /\ options.hotlTools = {} =>
              ~( /\ lastStep.response.returned = "result"
                 /\ lastStep.response.result.status = "awaiting_human" )

C14_Witness ==
    /\ SteppedOn("running")
    /\ lastStep.response.provider.kind = "function_call"
    /\ lastStep.response.provider.name \in options.hotlTools
    /\ lastStep.response.result.status = "awaiting_human"
    /\ agent.status = "awaiting_human"

\* C15: a step on a 'running' record whose last messagePauseThreshold
\* (default 4) entries are all assistant messages returns 'paused' with the
\* history unchanged and without calling the model provider; a record with
\* fewer entries than the threshold, or with a user message, tool call or tool
\* result among them, passes the guard and reaches the running handler.
C15_PauseGuard ==
    SteppedOn("running") =>
        IF LastAllAssistant(lastStep.input.history, ThresholdInForce)
        THEN /\ lastStep.response.returned = "result"
             /\ lastStep.response.result.status = "paused"
             /\ lastStep.response.result.history = lastStep.input.history
             /\ lastStep.response.llmCalls = 0
             /\ lastStep.response.provider = NoProvider
        ELSE lastStep.response.provider # NoProvider

\* the default threshold trips on exactly four assistant messages
C15_Witness ==
    /\ SteppedOn("running")
    /\ options.messagePauseThreshold = Unset
    /\ Len(lastStep.input.history) = 4
    /\ LastAllAssistant(lastStep.input.history, 4)
    /\ lastStep.response.result.status = "paused"
    /\ lastStep.response.llmCalls = 0
    /\ agent.status = "paused"

\* C16: a step on a 'running' record that passes the pause guard yields
\* 'paused' when the model returns a plain message and 'error' when the model
\* call, or the rulebook load preparing it, fails; on failure the returned
\* history is the input history and the result carries the failure's message;
\* the provider is called at most once.
C16_RunningMessageOrFailure ==
    ( SteppedOn("running") /\ lastStep.response.provider # NoProvider ) =>
        /\ lastStep.response.returned = "result"
        /\ lastStep.response.llmCalls <= 1
        /\ lastStep.response.provider.kind = "message" =>
              lastStep.response.result.status = "paused"
        /\ lastStep.response.provider.kind
              \in {"throwsError", "throwsString", "rulebookThrows"} =>
              /\ lastStep.response.result.status = "error"
              /\ lastStep.response.result.history = lastStep.input.history
              /\ lastStep.response.result.error = lastStep.response.provider.message
              /\ lastStep.response.result.error # ""
              /\ agent.status = "error"
              /\ agent.error = lastStep.response.provider.message

C16_Witness ==
    /\ SteppedOn("running")
    /\ lastStep.response.provider.kind = "throwsString"
    /\ lastStep.input.history # <<>>
    /\ lastStep.response.llmCalls = 1
    /\ lastStep.response.result.status = "error"
    /\ agent.error = "timeout"

\* the last entry of the record the latest step ran on
LastEntry == lastStep.input.history[Len(lastStep.input.history)]

\* the latest step ran on an 'awaiting_tool' record ending in a tool call
SteppedOnToolCall ==
    /\ SteppedOn("awaiting_tool")
    /\ lastStep.input.history # <<>>
    /\ LastEntry.type = "function_call"

\* the arguments of the requested call are JSON
WellFormedCall == LastEntry.arguments \in {"", "{}", "{\"query\":\"q1\"}", "{\"query\":\"q2\"}"}

\* the executor registered under the requested name, "" if there is none
RequestedExecutor ==
    IF \E i \in DOMAIN tools : tools[i].name = LastEntry.name
    THEN tools[CHOOSE i \in DOMAIN tools : tools[i].name = LastEntry.name].executor
    ELSE ""

\* C17: a step on an 'awaiting_tool' record whose last entry is a (well-formed)
\* tool-call request appends exactly one tool-result entry carrying the
\* request's call id; it returns 'running' when the registry result is a
\* success and when it is a structured failure, the entry then carrying the
\* error; it returns 'error' only when the registry invocation itself throws.
C17_ToolResultAppended ==
    ( SteppedOnToolCall /\ WellFormedCall ) =>
        LET out == lastStep.response.result
            entry == out.history[Len(out.history)]
        IN  /\ lastStep.response.returned = "result"
            /\ lastStep.response.registryCalls = 1
            /\ Len(out.history) = Len(lastStep.input.history) + 1
            /\ SubSeq(out.history, 1, Len(lastStep.input.history))
                  = lastStep.input.history
            /\ entry.type = "function_call_output"
            /\ entry.call_id = LastEntry.call_id
            /\ RequestedExecutor = "echo" =>
                  out.status = "running" /\ entry.status = "completed"
            /\ RequestedExecutor = "reports" =>
                  /\ out.status = "running"
                  /\ entry.output = "{\"error\":\"no results\"}"
            /\ RequestedExecutor = "throwsError" =>
                  /\ out.status = "running"
                  /\ entry.output = "{\"error\":\"Execution failed\"}"
            /\ (out.status = "error") <=> (RequestedExecutor = "")
            /\ out.status \in {"running", "error"}

\* a structured failure goes back to 'running' with the error in the entry
C17_Witness ==
    /\ SteppedOnToolCall
    /\ RequestedExecutor = "reports"
    /\ lastStep.response.result.status = "running"
    /\ agent.status = "running"
    /\ agent.history[Len(agent.history)].output = "{\"error\":\"no results\"}"
    /\ agent.history[Len(agent.history)].call_id = LastEntry.call_id

\* C18 as stated: a step on an 'awaiting_tool' record whose last entry
\* requests a tool that is not in the registry returns 'error' with a
\* non-empty error message on the step's result.
C18_MissingToolErrorMessage ==
    ( SteppedOnToolCall /\ WellFormedCall /\ RequestedExecutor = "" ) =>
        /\ lastStep.response.returned = "result"
        /\ lastStep.response.result.status = "error"
        /\ lastStep.response.result.error \notin {"", NoError}

\* C19 as stated: a step on an 'awaiting_tool' record whose last entry is a
\* malformed call (arguments that are not JSON), or that has no last entry,
\* returns 'error' and the record moves to 'error'; nothing is raised out of
\* the controller.
C19_MalformedCallMovesToError ==
    ( /\ SteppedOn("awaiting_tool")
      /\ \/ lastStep.input.history = <<>>
         \/ LastEntry.type = "function_call" /\ ~WellFormedCall )
    => /\ lastStep.response.returned = "result"
       /\ lastStep.response.result.status = "error"
       /\ agent.status = "error"

\* C21 as stated: checkMaxExecutions skips a job exactly when executions
\* (0 if unset) >= maxExecutions (unbounded if unset), for every non-negative
\* maxExecutions including 0.
C21_MaxExecutionsSkipsAtCap ==
    pout.evaluated =>
        ( pout.checks.maxExecutions.shouldSkip
          <=> /\ pin.automation.maxExecutions # Unset
              /\ Executions(pin.automation) >= pin.automation.maxExecutions )

\* the duration a frequency token stands for, a day for an unknown token
TokenInterval(frequency) ==
    LET Hour == 60 * Minute
        Day == 24 * Hour
    IN  CASE frequency = "every_5_minutes" -> 5 * Minute
          [] frequency = "every_10_minutes" -> 10 * Minute
          [] frequency = "every_15_minutes" -> 15 * Minute
          [] frequency = "every_30_minutes" -> 30 * Minute
          [] frequency = "every_1_hour" -> Hour
          [] frequency = "every_3_hours" -> 3 * Hour
          [] frequency = "every_6_hours" -> 6 * Hour
          [] frequency = "every_12_hours" -> 12 * Hour
          [] frequency = "daily" -> Day
          [] frequency = "every_2_days" -> 2 * Day
          [] frequency = "every_4_days" -> 4 * Day
          [] frequency = "weekly" -> 7 * Day
          [] frequency = "every_2_weeks" -> 14 * Day
          [] frequency = "monthly" -> 30 * Day
          [] OTHER -> Day

\* C22: checkRunRecently skips a job exactly when its frequency is not 'once'
\* and lastRun - 1 minute >= now - interval(frequency), the interval being the
\* token's duration and 24 hours for an unrecognised token; a 'once' job is
\* never skipped by it, whatever its lastRun. An unset lastRun counts as 0.
C22_RunRecentlySkipsWithinInterval ==
    pout.evaluated =>
        /\ pout.checks.runRecently.shouldSkip
              <=> /\ pin.automation.frequency # "once"
                  /\ (IF pin.automation.lastRun = Unset THEN 0
                      ELSE pin.automation.lastRun) - Minute
                        >= pin.now - TokenInterval(pin.automation.frequency)
        /\ pout.checks.runRecently.shouldSkip =>
              pout.checks.runRecently.reasonType = "run_recently"

\* an unrecognised token, exactly one day minus the leeway after the last run
C22_Witness ==
    /\ pout.evaluated
    /\ pin.automation.frequency = "fortnightly"
    /\ pin.automation.lastRun = pin.now - oneDay + Minute
    /\ pout.checks.runRecently.shouldSkip

\* the agents of one model class a batch stages for the jobs loaded before id
CreatedBefore(batch, id, class) ==
    Cardinality({ k \in DOMAIN batch :
                    /\ batch[k].op = "set"
                    /\ batch[k].id < id
                    /\ getModelType(batch[k].data.model) = class })

\* the agents of one model class a batch stages
CreatedOfClass(batch, class) ==
    Cardinality({ k \in DOMAIN batch :
                    /\ batch[k].op = "set"
                    /\ getModelType(batch[k].data.model) = class })

\* the cap of a model class
ClassCap(class) ==
    IF class = "small" THEN MAX_AGENTS_SMALL_MODEL ELSE MAX_AGENTS_LARGE_MODEL

\* C23: the rate counter is created empty at the start of every tick and
\* carries no state across ticks: what a tick counts for a class is what this
\* tick itself created of it, a job is rate-limited only when the agents this
\* tick created before it fill the cap of some class, and so each tick has
\* the full budget whatever earlier ticks created.
C23_CounterStartsEmptyEveryTick ==
    [][ IsTick =>
          /\ \A t \in ModelTypes :
                lastTick'.counter[t] = CreatedOfClass(lastTick'.batch, t)
          /\ \A k \in DOMAIN lastTick'.skipped :
                lastTick'.skipped[k].reasonType = "rate_limited" =>
                    \E t \in ModelTypes :
                        CreatedBefore(lastTick'.batch, lastTick'.skipped[k].id, t)
                            >= ClassCap(t) ]_vars

\* a second tick creates five large-class agents after a first tick did
C23_Witness ==
    /\ ticks = 2
    /\ lastTick.counter["large"] = MAX_AGENTS_LARGE_MODEL
    /\ Len(agents) >= 2 * MAX_AGENTS_LARGE_MODEL

\* the model class of the agent a job gets
OwnClass(automation) == getModelType(agentModel(automation, cfg.defaultModel))

\* C24 as stated: a job is rate-limited only by the count of its own class,
\* counted over the agents of all tenants: a tick skips a job as rate-limited
\* exactly when the agents of the job's class created before it in the tick,
\* whatever their tenant, have reached the cap of that class.
C24_LimitedByOwnClassOnly ==
    [][ IsTick =>
          /\ \A k \in DOMAIN lastTick'.skipped :
                LET id == lastTick'.skipped[k].id
                IN  lastTick'.skipped[k].reasonType = "rate_limited" =>
                      CreatedBefore(lastTick'.batch, id, OwnClass(jobs[id]))
                          >= ClassCap(OwnClass(jobs[id]))
          /\ \A k \in DOMAIN lastTick'.eligible :
                LET id == lastTick'.eligible[k]
                IN  CreatedBefore(lastTick'.batch, id, OwnClass(jobs[id]))
                        < ClassCap(OwnClass(jobs[id])) ]_vars

\* C25: for every eligible job the staged agent record has status 'running',
\* a history of exactly one user message that embeds the job's prompt and the
\* job's own id, the name made of the configured prefix and the job's name,
\* the job's model or else the configured default, and the originating job
\* id; and the staged job update sets lastRun to the tick's now.
C25_StagedAgentRecord ==
    [][ IsTick =>
          \A k \in DOMAIN lastTick'.eligible :
             LET id == lastTick'.eligible[k]
                 job == jobs[id]
                 batch == lastTick'.batch
             IN  /\ CountOps(batch, "set", id) = 1
                 /\ CountOps(batch, "update", id) = 1
                 /\ \A m \in DOMAIN batch :
                       (batch[m].id = id /\ batch[m].op = "set") =>
                          /\ batch[m].data.status = "running"
                          /\ Len(batch[m].data.history) = 1
                          /\ batch[m].data.history[1].type = "message"
                          /\ batch[m].data.history[1].role = "user"
                          /\ batch[m].data.history[1].content =
                                << "<prompt>", job.prompt,
                                   "</prompt><automation_id>", id,
                                   "</automation_id>" >>
                          /\ batch[m].data.name = <<cfg.agentNamePrefix, job.name>>
                          /\ batch[m].data.model =
                                (IF job.model = NoModel THEN cfg.defaultModel
                                 ELSE job.model)
                          /\ batch[m].data.automationId = id
                 /\ \A m \in DOMAIN batch :
                       (batch[m].id = id /\ batch[m].op = "update") =>
                          batch[m].data.lastRun = clock' ]_vars

\* a tick stages an agent for a job with a model of its own and for one
\* without, under a default that differs from the former
C25_Witness ==
    /\ ticks >= 1
    /\ cfg.defaultModel = "gpt-5.2"
    /\ \E k, m \in DOMAIN lastTick.batch :
          /\ lastTick.batch[k].op = "set"
          /\ lastTick.batch[m].op = "set"
          /\ jobs[lastTick.batch[k].id].model = "gpt-5-mini"
          /\ lastTick.batch[k].data.model = "gpt-5-mini"
          /\ jobs[lastTick.batch[m].id].model = NoModel
          /\ lastTick.batch[m].data.model = "gpt-5.2"

\* the skip log lines a tick wrote for a job
SkipLogsFor(report, id) ==
    { k \in DOMAIN report.logs :
        report.logs[k].kind = "skip" /\ report.logs[k].id = id }

\* the skip events a tick sent to the tracking sink for a job
SkipEventsFor(report, id) ==
    { k \in DOMAIN report.tracked :
        /\ report.tracked[k].event = "automation_skipped"
        /\ report.tracked[k].automation_id = id }

\* the jobs a tick skipped
SkippedIds(report) == { report.skipped[k].id : k \in DOMAIN report.skipped }

\* C30: a job that a tick skips, for whatever reason, has no mutation staged:
\* the tick leaves its executions, lastRun and enabled as they were, creates
\* no agent record for it, and emits exactly one skip observation with the
\* reason kind (one log line, and one event when a tracking sink is
\* configured); a job skipped as rate-limited is evaluated again in the next
\* tick, with the bookkeeping it had.
C30_SkippedJobUntouched ==
    [][ IsTick =>
          /\ \A k \in DOMAIN lastTick'.skipped :
                LET id == lastTick'.skipped[k].id
                    kind == lastTick'.skipped[k].reasonType
                IN  /\ jobs'[id] = jobs[id]
                    /\ CountOps(lastTick'.batch, "set", id) = 0
                    /\ CountOps(lastTick'.batch, "update", id) = 0
                    /\ AgentsOf(agents', id) = AgentsOf(agents, id)
                    /\ Cardinality({ j \in DOMAIN lastTick'.skipped :
                                       lastTick'.skipped[j].id = id }) = 1
                    /\ Cardinality(SkipLogsFor(lastTick', id)) = 1
                    /\ \A j \in SkipLogsFor(lastTick', id) :
                          lastTick'.logs[j].reasonType = kind
                    /\ Cardinality(SkipEventsFor(lastTick', id))
                          = (IF cfg.track THEN 1 ELSE 0)
                    /\ \A j \in SkipEventsFor(lastTick', id) :
                          lastTick'.tracked[j].skip_reason = kind
          /\ \A k \in DOMAIN lastTick.skipped :
                LET id == lastTick.skipped[k].id
                IN  ( /\ lastTick.skipped[k].reasonType = "rate_limited"
                      /\ jobs[id].enabled = TRUE
                      /\ lastTick'.raised # "load failed" ) =>
                        /\ id \in Range(lastTick'.loaded)
                        /\ id \in SkippedIds(lastTick') \cup Range(lastTick'.eligible)
                        /\ id \in SkippedIds(lastTick') => jobs'[id] = jobs[id] ]_vars

\* a job skipped as rate-limited in two ticks, still as it was created; and in
\* the same tick a job skipped because it ran a minute ago
C30_Witness ==
    /\ ticks = 2
    /\ \E k \in DOMAIN lastTick.skipped :
          /\ lastTick.skipped[k].reasonType = "rate_limited"
          /\ jobs[lastTick.skipped[k].id].executions = Unset
          /\ jobs[lastTick.skipped[k].id].lastRun = Unset
          /\ AgentsOf(agents, lastTick.skipped[k].id) = 0
    /\ Len(agents) > MAX_AGENTS_LARGE_MODEL

\* a tick that skips one job as run recently and creates an agent for a job
\* that the tick before skipped as rate-limited
C30_RetriedWitness ==
    /\ ticks = 2
    /\ \E k \in DOMAIN lastTick.skipped :
          lastTick.skipped[k].reasonType = "run_recently"
    /\ \E k \in DOMAIN lastTick.eligible :
          /\ jobs[lastTick.eligible[k]].executions = 1
          /\ \A j \in DOMAIN lastTick.skipped :
                jobs[lastTick.skipped[j].id].executions = 1

\* a is a prefix of b
IsPrefix(a, b) == Len(a) <= Len(b) /\ SubSeq(b, 1, Len(a)) = a

\* C26 as stated: within one controller step the history is append-only: the
\* history of the step's result has the step's input history as a prefix, for
\* the pause guard, the running handler whatever history the provider
\* returns, and the awaiting_tool handler.
C26_HistoryAppendOnly ==
    (lastStep.ran /\ lastStep.response.returned = "result") =>
        IsPrefix(lastStep.input.history, lastStep.response.result.history)

\* C27 as stated: a controller step on a record whose status is none of the
\* five defined states, or on a missing record, signals not-processed, logs a
\* warning, and calls neither the model provider nor the tool registry.
C27_UnknownStatusNotProcessed ==
    /\ (lastStep.ran /\ lastStep.input.status \notin AgentStatuses) =>
          /\ lastStep.response.returned = "false"
          /\ lastStep.response.warned
          /\ lastStep.response.llmCalls = 0
          /\ lastStep.response.registryCalls = 0
    /\ \A llm \in LlmOutcomes :
          processAgentController(NoAgent, options, tools, llm) = NotProcessed(TRUE)

\* C28 as stated: the agent-loop handler never overwrites an external pause
\* or error: when an external actor sets the status to 'paused' or 'error'
\* after the handler was triggered and before its write-back, the write-back
\* does not replace that status or the history with the controller's result,
\* under every interleaving of the external write with the re-read and the
\* update.
C28_ExternalPauseNeverOverwritten ==
    (loop.pc = "done" /\ loop.wrote /\ loop.external \in {"paused", "error"}) =>
        /\ agent.status = loop.external
        /\ agent.history = loop.externalDoc.history

\* C29: the agent-loop handler runs a controller step only for a change
\* notification in which the record exists after the change and its status
\* differs from the status before it, a newly created record counting as
\* changed; for every other notification it performs no controller step and
\* no write.
C29_StepOnlyOnStatusChange ==
    loop.pc # "idle" =>
        /\ loop.stepped =>
              /\ loop.event.after # NoAgent
              /\ loop.event.beforeStatus # loop.event.after.status
        /\ ( \/ loop.event.after = NoAgent
             \/ loop.event.beforeStatus = loop.event.after.status ) =>
              /\ ~loop.stepped
              /\ ~loop.wrote
              /\ loop.external = "" => agent = loop.event.after
        /\ loop.wrote => loop.stepped

\* a newly created running record was stepped and written back
C29_Witness ==
    /\ loop.pc = "done"
    /\ loop.event.beforeStatus = "undefined"
    /\ loop.event.after # NoAgent
    /\ loop.stepped
    /\ loop.wrote

C33_RunsSeparatedByInterval ==
    [][ IsTick =>
          /\ \A k \in DOMAIN lastTick'.loaded :
                LET id == lastTick'.loaded[k]
                    job == jobs[id]
                IN  ( /\ lastTick'.outcome = "ok"
                      /\ job.frequency # "once"
                      /\ job.lastRun # Unset
                      /\ clock' - job.lastRun
                            <= TokenInterval(job.frequency) - Minute ) =>
                        \E j \in DOMAIN lastTick'.skipped :
                            /\ lastTick'.skipped[j].id = id
                            /\ lastTick'.skipped[j].reasonType = "run_recently"
          /\ \A i, j \in DOMAIN agents' :
                ( /\ i < j
                  /\ agents'[i].automationId = agents'[j].automationId
                  /\ jobs[agents'[i].automationId].frequency # "once" ) =>
                    agents'[j].createdAt - agents'[i].createdAt
                        > TokenInterval(jobs[agents'[i].automationId].frequency)
                            - Minute ]_vars

\* a job that ran is skipped exactly interval minus one minute later, and
\* another state has a job with two runs
C33_Witness ==
    /\ ticks = 2
    /\ \E j \in DOMAIN lastTick.skipped :
          /\ lastTick.skipped[j].reasonType = "run_recently"
          /\ clock - jobs[lastTick.skipped[j].id].lastRun
                = TokenInterval(jobs[lastTick.skipped[j].id].frequency) - Minute

\* a job with two runs, five minutes apart
C33_TwoRunsWitness ==
    \E i, j \in DOMAIN agents :
        /\ i < j
        /\ agents[i].automationId = agents[j].automationId
        /\ agents[j].createdAt - agents[i].createdAt = 5 * Minute

\* C34 as stated: an 'automation_executed' observation is emitted for a job
\* only if that job's agent creation and job update are committed in the same
\* tick; no executed observation exists for a job whose mutations were
\* discarded because a later job's staging or the batch commit failed.
C34_ExecutedOnlyIfCommitted ==
    [][ IsTick =>
          \A k \in DOMAIN lastTick'.tracked :
             lastTick'.tracked[k].event = "automation_executed" =>
                /\ lastTick'.committed
                /\ CountOps(lastTick'.batch, "set",
                            lastTick'.tracked[k].automation_id) = 1
                /\ CountOps(lastTick'.batch, "update",
                            lastTick'.tracked[k].automation_id) = 1
                /\ AgentsOf(agents', lastTick'.tracked[k].automation_id)
                      = AgentsOf(agents, lastTick'.tracked[k].automation_id) + 1
      ]_vars

\* the statuses in which the controller leaves a record alone
RestingStatuses == {"paused", "awaiting_human", "error"}

\* C35 as stated: every controller step that processes a record (status
\* 'running' or 'awaiting_tool', and a result returned) returns a status
\* different from the record's input status, so each write-back is a status
\* change and raises a further notification, and the notification loop stops
\* exactly when the status becomes 'paused', 'awaiting_human' or 'error'.
C35_LoopStopsExactlyAtRest ==
    (lastStep.ran /\ lastStep.input.status \in AgentStatuses) =>
        /\ lastStep.response.returned = "result" =>
              lastStep.response.result.status # lastStep.input.status
        /\ lastStep.wrote =>
              (notice.pending /\ agent.status # lastStep.input.status)
        /\ lastStep.input.status \in RestingStatuses =>
              (~lastStep.wrote /\ ~notice.pending)
        /\ ~notice.pending => agent.status \in RestingStatuses

\* C36 as stated: in any sequence of controller steps with no external status
\* change, the tool registry is never asked to execute a tool whose name is
\* in the human-in-the-loop set, including when the history the provider
\* returns and the next action it reports disagree.
C36_HotlToolNeverExecuted ==
    (lastStep.ran /\ lastStep.response.registryCalls > 0) =>
        LastEntry.name \notin options.hotlTools

\* how many entries at the end of a history are assistant messages
RECURSIVE TrailingAssistant(_)
TrailingAssistant(history) ==
    IF history = <<>> THEN 0
    ELSE IF /\ history[Len(history)].type = "message"
            /\ history[Len(history)].role = "assistant"
         THEN 1 + TrailingAssistant(SubSeq(history, 1, Len(history) - 1))
         ELSE 0

\* C37: the model provider is never called for a record whose last
\* messagePauseThreshold entries are all assistant messages, so when the
\* provider appends one entry per call the assistant messages at the end of
\* the history never grow beyond the threshold, however many times an
\* external actor sets the status back to 'running' without adding a user
\* message.
C37_NoRunawaySelfDialogue ==
    lastStep.ran =>
        /\ LastAllAssistant(lastStep.input.history, ThresholdInForce) =>
              /\ lastStep.response.llmCalls = 0
              /\ lastStep.response.provider = NoProvider
        /\ ( /\ lastStep.response.llmCalls > 0
             /\ lastStep.response.returned = "result"
             /\ lastStep.response.provider.returns = "appended" ) =>
              /\ TrailingAssistant(lastStep.response.result.history)
                    <= ThresholdInForce
              /\ TrailingAssistant(lastStep.response.result.history)
                    <= TrailingAssistant(lastStep.input.history) + 1

\* a record set back to 'running' a second time is paused without a call to
\* the provider: the provider's own message filled the threshold
C37_Witness ==
    /\ steps = 3
    /\ SteppedOn("running")
    /\ Len(lastStep.input.history) = MaxHistory + 1
    /\ LastAllAssistant(lastStep.input.history, ThresholdInForce)
    /\ lastStep.response.llmCalls = 0
    /\ lastStep.response.result.status = "paused"

\* the names a registry holds
RegisteredNames(ts) == { ts[i].name : i \in DOMAIN ts }

\* C38: after any sequence of register, unregister, clear and execute
\* calls the registry holds at most one tool per name, size is the number of
\* distinct registered names, has(name) is true exactly for the names
\* registered and not removed since, and the array returned by getAvailable
\* is a fresh snapshot of the registered tools: changing it afterwards does
\* not change the registry, and later registry calls do not change it.
C38_RegistryConsistentAndSnapshot ==
    [][ /\ \A i, j \in DOMAIN tools' : tools'[i].name = tools'[j].name => i = j
        /\ size(tools') = Cardinality(RegisteredNames(tools'))
        /\ \A name \in ToolNames :
              has(tools', name) <=>
                 CASE lastCall'.op = "register" /\ ~lastCall'.raised ->
                         name = lastCall'.name \/ has(tools, name)
                   [] lastCall'.op = "unregister" ->
                         name # lastCall'.name /\ has(tools, name)
                   [] lastCall'.op = "clear" -> FALSE
                   [] OTHER -> has(tools, name)
        /\ lastCall'.op = "getAvailable" =>
              /\ Len(lastCall'.held.items) = size(tools)
              /\ { lastCall'.held.items[i] : i \in DOMAIN lastCall'.held.items }
                    = { tools[i] : i \in DOMAIN tools }
              /\ tools' = tools
        /\ lastCall'.op = "modifyArray" => tools' = tools
        /\ lastCall'.op \in {"register", "unregister", "clear", "execute"} =>
              lastCall'.held.items = lastCall.held.items ]_vars

\* a caller emptied the array it was given and the registry still holds both
\* tools; a tool registered after the array was taken is not in it
C38_Witness ==
    /\ lastCall.op = "modifyArray"
    /\ lastCall.held.items = <<>>
    /\ size(tools) = 2
    /\ has(tools, "search") /\ has(tools, "browse")

C38_LaterRegisterWitness ==
    /\ lastCall.op = "register"
    /\ ~lastCall.raised
    /\ lastCall.held.taken
    /\ Len(lastCall.held.items) = 1
    /\ size(tools) = 2

\* the tool-result entries that carry an error of one of the executors
ErrorOutputs ==
    { "{\"error\":\"partial\"}", "{\"error\":\"no results\"}",
      "{\"error\":\"Execution failed\"}", "{\"error\":\"offline\"}" }

\* C39: the awaiting_tool handler takes a registry result as a failure when
\* success is false or when error is non-empty: a result with success = true
\* and a non-empty error is recorded as an error tool-result (status
\* 'completed', record back to 'running') and its output is dropped; a result
\* with success = true and no error is recorded with its output.
C39_ErrorFieldMakesFailure ==
    ( SteppedOnToolCall /\ WellFormedCall /\ RequestedExecutor # "" ) =>
        LET out == lastStep.response.result
            entry == out.history[Len(out.history)]
        IN  /\ lastStep.response.returned = "result"
            /\ out.status = "running"
            /\ entry.type = "function_call_output"
            /\ entry.status = "completed"
            /\ RequestedExecutor = "warns" =>
                  entry.output = "{\"error\":\"partial\"}"
            /\ RequestedExecutor = "reports" =>
                  entry.output = "{\"error\":\"no results\"}"
            /\ RequestedExecutor = "echo" => entry.output \notin ErrorOutputs

\* a result with success = true and an error went into the history as an
\* error, and the record is back to 'running'
C39_Witness ==
    /\ SteppedOnToolCall
    /\ WellFormedCall
    /\ RequestedExecutor = "warns"
    /\ agent.status = "running"
    /\ agent.history[Len(agent.history)].type = "function_call_output"
    /\ agent.history[Len(agent.history)].status = "completed"
    /\ agent.history[Len(agent.history)].output = "{\"error\":\"partial\"}"

====
